---- MODULE Spec2Model ----
(***************************************************************************)
(* A model of the biowiki page/attachment store (src/src/page.rs,          *)
(* src/src/web.rs), of its path router (src/src/router.rs) and of the     *)
(* request handlers that drive the store (src/src/lib.rs).                 *)
(*                                                                         *)
(* Strings are sequences of one-character strings, so that the router's    *)
(* regular expressions, PathBuf::push and the file-name checks act on the  *)
(* characters the code sees.  The filesystem is a function from canonical  *)
(* paths (sequences of component names) to nodes.                          *)
(***************************************************************************)
EXTENDS Integers, Sequences, FiniteSets, TLC

VARIABLES
    fs,        \* the filesystem: canonical path -> node
    lock,      \* holder of the Mutex<Webs> (a request id), or 0 when free
    reqs,      \* per request: where its handler stands and what it captured
    lastOp,    \* the store operation executed by the latest step
    hist,      \* per page directory: the details successfully written to it
    saved,     \* per page directory and file name: the payload last saved
    nreq,      \* the number of requests received so far
    rpath      \* the path under test of the router specification

vars == <<fs, lock, reqs, lastOp, hist, saved, nreq, rpath>>

----------------------------------------------------------------------------
(* Strings.                                                                *)

SLASH == "/"
S_empty == << >>
S_webs == <<"w","e","b","s">>
S_pages == <<"p","a","g","e","s">>
S_attachments == <<"a","t","t","a","c","h","m","e","n","t","s">>
S_versions == <<"v","e","r","s","i","o","n","s">>
S_dotdot == <<".",".">>
S_dot == <<".">>

\* A byte that no UTF-8 text holds: OsStr::to_str gives None on a name with it.
NonUtf8 == "<ff>"
IsUtf8(s) == \A i \in DOMAIN s : s[i] # NonUtf8

\* A line feed, as a character.
LF == "<lf>"

----------------------------------------------------------------------------
(* Characters and UTF-8.  A character of a Rust String is written as a     *)
(* one-character string: the printable characters of ASCII and of Latin-1  *)
(* as themselves, the line feed as LF, and every other Unicode scalar      *)
(* value n as "<U+n>" (the grave accent, which no TLA+ string holds, is    *)
(* "<U+96>").                                                              *)

Ascii ==
    <<
        " ","!","\"","#","$","%","&","'","(",")","*","+",",","-",".","/",
        "0","1","2","3","4","5","6","7","8","9",":",";","<","=",">","?",
        "@","A","B","C","D","E","F","G","H","I","J","K","L","M","N","O",
        "P","Q","R","S","T","U","V","W","X","Y","Z","[","\\","]","^","_",
        "<U+96>","a","b","c","d","e","f","g","h","i","j","k","l","m","n","o",
        "p","q","r","s","t","u","v","w","x","y","z","{","|","}","~" >>

Latin1 ==
    <<
        " ","¡","¢","£","¤","¥","¦","§","¨","©","ª","«","¬","­","®","¯",
        "°","±","²","³","´","µ","¶","·","¸","¹","º","»","¼","½","¾","¿",
        "À","Á","Â","Ã","Ä","Å","Æ","Ç","È","É","Ê","Ë","Ì","Í","Î","Ï",
        "Ð","Ñ","Ò","Ó","Ô","Õ","Ö","×","Ø","Ù","Ú","Û","Ü","Ý","Þ","ß",
        "à","á","â","ã","ä","å","æ","ç","è","é","ê","ë","ì","í","î","ï",
        "ð","ñ","ò","ó","ô","õ","ö","÷","ø","ù","ú","û","ü","ý","þ","ÿ" >>

\* The character of code point n.
Chr(n) ==
    IF n \in 32..126 THEN Ascii[n - 31]
    ELSE IF n \in 160..255 THEN Latin1[n - 159]
    ELSE IF n = 10 THEN LF
    ELSE "<U+" \o ToString(n) \o ">"

DigitOf(ch) == CHOOSE d \in 0..9 : ToString(d) = ch
RECURSIVE DecimalOf(_, _)
DecimalOf(s, k) ==
    IF k = 0 THEN 0 ELSE 10 * DecimalOf(s, k - 1) + DigitOf(SubSeq(s, k, k))

\* The code points of the characters of the two tables and of LF.
RECURSIVE CodeTable(_, _)
CodeTable(lo, hi) ==
    IF lo = hi THEN Chr(lo) :> lo
    ELSE CodeTable(lo, (lo + hi) \div 2) @@ CodeTable((lo + hi) \div 2 + 1, hi)
CodeOf == CodeTable(32, 126) @@ CodeTable(160, 255) @@ (LF :> 10)

\* The code point of character c.
Ord(c) ==
    IF c \in DOMAIN CodeOf THEN CodeOf[c]
    ELSE DecimalOf(SubSeq(c, 4, Len(c) - 1), Len(c) - 4)

\* The UTF-8 encoding of code point n.
Utf8Of(n) ==
    IF n < 128 THEN <<n>>
    ELSE IF n < 2048 THEN <<192 + (n \div 64), 128 + (n % 64)>>
    ELSE IF n < 65536 THEN
        <<224 + (n \div 4096), 128 + ((n \div 64) % 64), 128 + (n % 64)>>
    ELSE <<240 + (n \div 262144), 128 + ((n \div 4096) % 64),
           128 + ((n \div 64) % 64), 128 + (n % 64)>>

\* The byte of b at position i, -1 past its end.
At(b, i) == IF i \in DOMAIN b THEN b[i] ELSE -1

IsCont(c) == c \in 128..191

\* The character that starts at byte i of b and the number of its bytes, as
\* str::from_utf8 accepts it: len is 0 where the bytes are no UTF-8.
Utf8At(b, i) ==
    LET c == At(b, i)
        c2 == At(b, i + 1)
        c3 == At(b, i + 2)
        c4 == At(b, i + 3)
    IN  IF c \in 0..127 THEN [len |-> 1, code |-> c]
        ELSE IF c \in 194..223 /\ IsCont(c2)
            THEN [len |-> 2, code |-> (c - 192) * 64 + (c2 - 128)]
        ELSE IF /\ c \in 224..239 /\ IsCont(c2) /\ IsCont(c3)
                /\ (c = 224 => c2 >= 160) /\ (c = 237 => c2 <= 159)
            THEN [len |-> 3, code |-> (c - 224) * 4096 + (c2 - 128) * 64 + (c3 - 128)]
        ELSE IF /\ c \in 240..244 /\ IsCont(c2) /\ IsCont(c3) /\ IsCont(c4)
                /\ (c = 240 => c2 >= 144) /\ (c = 244 => c2 <= 143)
            THEN [len |-> 4, code |-> (c - 240) * 262144 + (c2 - 128) * 4096
                                        + (c3 - 128) * 64 + (c4 - 128)]
        ELSE [len |-> 0, code |-> 0]

\* The characters of a string written whole, as a field name is, and back.
Chars(str) == [i \in 1..Len(str) |-> SubSeq(str, i, i)]
RECURSIVE Text(_)
Text(s) == IF s = << >> THEN "" ELSE s[1] \o Text(Tail(s))

\* page.rs:11
PAGE_FILENAME == <<"p","a","g","e",".","j","s","o","n">>
\* page.rs:12
ATTACHMENTS_DIRECTORY == S_attachments

\* The index of the first sep of s, 0 when it has none.
FirstIndex(s, sep) ==
    IF \E i \in DOMAIN s : s[i] = sep
    THEN CHOOSE i \in DOMAIN s : s[i] = sep /\ \A j \in 1..(i - 1) : s[j] # sep
    ELSE 0

\* str::split(sep): the pieces of s between the separators, empty ones kept.
RECURSIVE Split(_, _)
Split(s, sep) ==
    LET i == FirstIndex(s, sep) IN
    IF i = 0 THEN <<s>>
    ELSE <<SubSeq(s, 1, i - 1)>> \o Split(SubSeq(s, i + 1, Len(s)), sep)

\* The sequence q with its first n elements dropped (Iterator::skip).
Skip(q, n) == IF Len(q) <= n THEN << >> ELSE SubSeq(q, n + 1, Len(q))

\* The elements of q that satisfy Keep, in order.
RECURSIVE SelectComps(_, _)
SelectComps(q, drop) ==
    IF q = << >> THEN << >>
    ELSE IF Head(q) \in drop THEN SelectComps(Tail(q), drop)
    ELSE <<Head(q)>> \o SelectComps(Tail(q), drop)

----------------------------------------------------------------------------
(* Paths (std::path::PathBuf) and the filesystem.                          *)

\* What follows the last name of a path: S_dot when the path ends in "/."
\* (with or without further slashes), S_empty when it ends in "/", nothing
\* otherwise.  The kernel sees both, Path::components drops both.
RECURSIVE TrailMark(_)
TrailMark(q) ==
    IF q = << >> THEN << >>
    ELSE LET l == q[Len(q)] IN
         IF l \notin {S_empty, S_dot} THEN << >>
         ELSE IF l = S_dot \/ TrailMark(SubSeq(q, 1, Len(q) - 1)) = <<S_dot>>
              THEN <<S_dot>>
              ELSE <<S_empty>>

\* A path as a sequence: its names and ".." in order (empty pieces and "."
\* between names change nothing in the walk of the path), then what it ends in.
\* (The pieces are evaluated once.)
Normalize(q) ==
    CHOOSE n \in {SelectComps(x, {S_empty, S_dot}) \o TrailMark(x) : x \in {q}} : TRUE

\* The path a string spells.
Components(s) == Normalize(Split(s, SLASH))

IsAbsolute(s) == s # << >> /\ s[1] = SLASH

\* PathBuf::push: an absolute argument replaces the path; otherwise the
\* argument is appended after a separator (pushing "" leaves a trailing "/").
PathPush(path, s) ==
    IF IsAbsolute(s) THEN Components(s) ELSE Normalize(path \o Split(s, SLASH))

\* Path::file_name: the last component, None when the path ends in ".." or has
\* no name; a trailing "/" or "/." is not a component.
PathFileName(path) ==
    LET names == SelectComps(path, {S_empty, S_dot}) IN
    IF names = << >> \/ names[Len(names)] = S_dotdot
    THEN [some |-> FALSE, v |-> << >>]
    ELSE [some |-> TRUE, v |-> names[Len(names)]]

DirNode == [kind |-> "dir"]
FileNode(d) == [kind |-> "file", data |-> d]

IsDirAt(f, p) == p \in DOMAIN f /\ f[p].kind = "dir"
IsFileAt(f, p) == p \in DOMAIN f /\ f[p].kind = "file"

Parent(p) == IF p = << >> THEN << >> ELSE SubSeq(p, 1, Len(p) - 1)

\* The kernel's walk of a path: every component is looked up in the directory
\* reached so far; ".." steps to the parent, "." and an empty piece stay.  The
\* result is the canonical path named (which need not exist) or the error of
\* the walk.
RECURSIVE Walk(_, _, _)
Walk(f, cur, rest) ==
    IF rest = << >> THEN [ok |-> TRUE, p |-> cur]
    ELSE IF cur \notin DOMAIN f THEN [ok |-> FALSE, err |-> "NotFound"]
    ELSE IF f[cur].kind # "dir" THEN [ok |-> FALSE, err |-> "NotADirectory"]
    ELSE IF Head(rest) = S_dotdot THEN Walk(f, Parent(cur), Tail(rest))
    ELSE IF Head(rest) \in {S_dot, S_empty} THEN Walk(f, cur, Tail(rest))
    ELSE Walk(f, Append(cur, Head(rest)), Tail(rest))

\* A path that ends in "/": what it names must be, or become, a directory.
HasSlash(path) == path # << >> /\ path[Len(path)] = S_empty

\* The walk of a path from the root, up to its last name (the path is
\* evaluated once, then walked).
Resolve(f, path) ==
    CHOOSE r \in {Walk(f, << >>, p) :
                    p \in {IF HasSlash(path) THEN Parent(path) ELSE path}} : TRUE

\* stat: the node a path names.  A regular file is not named by a path that
\* ends in "/".
StatOf(f, r, slash) ==
    IF ~r.ok THEN [ok |-> FALSE, err |-> r.err, kind |-> ""]
    ELSE IF r.p \notin DOMAIN f THEN [ok |-> FALSE, err |-> "NotFound", kind |-> ""]
    ELSE IF slash /\ f[r.p].kind # "dir"
        THEN [ok |-> FALSE, err |-> "NotADirectory", kind |-> ""]
    ELSE [ok |-> TRUE, err |-> "", kind |-> f[r.p].kind]
FsStat(f, path) ==
    CHOOSE st \in {StatOf(f, w[1], w[2]) :
                    w \in {<<Resolve(f, p), HasSlash(p)>> : p \in {path}}} : TRUE

\* Path::exists, Path::is_dir, Path::is_file: stat succeeds (and tells the kind)
PathExists(f, path) == FsStat(f, path).ok
PathIsDir(f, path) == LET st == FsStat(f, path) IN st.ok /\ st.kind = "dir"
PathIsFile(f, path) == LET st == FsStat(f, path) IN st.ok /\ st.kind = "file"

\* The function g extended or overwritten at key k.
Put(g, k, v) == [x \in DOMAIN g \cup {k} |-> IF x = k THEN v ELSE g[x]]

\* fs::create_dir (mkdir): the parent must be a directory and the name free; a
\* trailing "/" changes nothing.
FsCreateDir(f, path) ==
    LET r == Resolve(f, path) IN
    IF ~r.ok THEN [ok |-> FALSE, err |-> r.err, fs |-> f]
    ELSE IF r.p \in DOMAIN f THEN [ok |-> FALSE, err |-> "AlreadyExists", fs |-> f]
    ELSE IF ~IsDirAt(f, Parent(r.p)) THEN
        [ok |-> FALSE,
         err |-> IF Parent(r.p) \in DOMAIN f THEN "NotADirectory" ELSE "NotFound",
         fs |-> f]
    ELSE [ok |-> TRUE, err |-> "", fs |-> Put(f, r.p, DirNode)]

\* File::create followed by a complete write of data: the file is created or
\* truncated, then holds data.  A path that ends in "/" names no regular file.
FsWriteFile(f, path, data) ==
    LET r == Resolve(f, path) IN
    IF ~r.ok THEN [ok |-> FALSE, err |-> r.err, fs |-> f]
    ELSE IF HasSlash(path) \/ IsDirAt(f, r.p)
        THEN [ok |-> FALSE, err |-> "IsADirectory", fs |-> f]
    ELSE IF ~IsDirAt(f, Parent(r.p)) THEN
        [ok |-> FALSE,
         err |-> IF Parent(r.p) \in DOMAIN f THEN "NotADirectory" ELSE "NotFound",
         fs |-> f]
    ELSE [ok |-> TRUE, err |-> "", fs |-> Put(f, r.p, FileNode(data))]

\* File::open followed by a read of the whole file.
ReadOf(f, r, slash) ==
    IF ~r.ok THEN [ok |-> FALSE, err |-> r.err]
    ELSE IF r.p \notin DOMAIN f THEN [ok |-> FALSE, err |-> "NotFound"]
    ELSE IF f[r.p].kind = "dir" THEN [ok |-> FALSE, err |-> "IsADirectory"]
    ELSE IF slash THEN [ok |-> FALSE, err |-> "NotADirectory"]
    ELSE [ok |-> TRUE, data |-> f[r.p].data]
FsReadFile(f, path) ==
    CHOOSE file \in {ReadOf(f, w[1], w[2]) :
                      w \in {<<Resolve(f, p), HasSlash(p)>> : p \in {path}}} : TRUE

----------------------------------------------------------------------------
(* JSON documents and serde.  A file or a request body is a sequence of    *)
(* bytes.  The model keeps with the bytes what serde_json reads from them: *)
(* the members of a JSON object (in the order written, each a key and a    *)
(* value), the items of a JSON array, or nothing when the bytes are        *)
(* neither.  A value is the string it spells, or NotAString for a number,  *)
(* a literal, an array, an object, or a string that str::from_utf8 or the  *)
(* surrogate rules refuse.                                                 *)

NotAString == <<"<value>">>

JsonDoc(members, text) ==
    [t |-> "json", json |-> members, array |-> << >>, bytes |-> text, list |-> {}]
ArrayDoc(items, text) ==
    [t |-> "array", json |-> << >>, array |-> items, bytes |-> text, list |-> {}]
RawDoc(b) ==
    [t |-> "bytes", json |-> << >>, array |-> << >>, bytes |-> b, list |-> {}]
\* A response body that lists names, and the empty body.
List(names) ==
    [t |-> "list", json |-> << >>, array |-> << >>, bytes |-> << >>, list |-> names]
NoBody == [t |-> "none", json |-> << >>, array |-> << >>, bytes |-> << >>, list |-> {}]

\* serde_json's writer: a string between quotes, with the quote, the
\* backslash and the control characters escaped.
HexDigit(d) == IF d < 10 THEN 48 + d ELSE 87 + d
EscapeOf(n) ==
    IF n = 34 THEN <<92, 34>>
    ELSE IF n = 92 THEN <<92, 92>>
    ELSE IF n = 8 THEN <<92, 98>>
    ELSE IF n = 9 THEN <<92, 116>>
    ELSE IF n = 10 THEN <<92, 110>>
    ELSE IF n = 12 THEN <<92, 102>>
    ELSE IF n = 13 THEN <<92, 114>>
    ELSE IF n < 32 THEN <<92, 117, 48, 48, HexDigit(n \div 16), HexDigit(n % 16)>>
    ELSE Utf8Of(n)
RECURSIVE Escaped(_, _)
Escaped(s, k) == IF k > Len(s) THEN << >> ELSE EscapeOf(Ord(s[k])) \o Escaped(s, k + 1)
Quoted(s) == <<34>> \o Escaped(s, 1) \o <<34>>

\* The names of the fields of the structs, as they are written.
FieldText ==
    ("name" :> Quoted(Chars("name"))) @@ ("title" :> Quoted(Chars("title")))
    @@ ("content" :> Quoted(Chars("content")))
    @@ ("file_name" :> Quoted(Chars("file_name")))
    @@ ("encoded_data" :> Quoted(Chars("encoded_data")))
QuotedKey(k) == IF k \in DOMAIN FieldText THEN FieldText[k] ELSE Quoted(Chars(k))

\* The members from the k-th on, sep between two of them and colon between
\* a key and its value.
RECURSIVE MembersText(_, _, _, _)
MembersText(members, k, sep, colon) ==
    IF k > Len(members) THEN << >>
    ELSE (IF k = 1 THEN << >> ELSE sep)
         \o QuotedKey(members[k][1]) \o colon \o Quoted(members[k][2])
         \o MembersText(members, k + 1, sep, colon)

RECURSIVE ItemsText(_, _)
ItemsText(items, k) ==
    IF k > Len(items) THEN << >>
    ELSE (IF k = 1 THEN << >> ELSE <<44>>) \o Quoted(items[k]) \o ItemsText(items, k + 1)

\* serde_json::to_string of a struct of strings: {"k":"v","k":"v"}
to_string(members) == <<123>> \o MembersText(members, 1, <<44>>, <<58>>) \o <<125>>

\* serde_json::to_writer_pretty of a struct of strings: one member a line,
\* indented by two spaces, a space after the colon.
to_writer_pretty(members) ==
    <<123, 10, 32, 32>> \o MembersText(members, 1, <<44, 10, 32, 32>>, <<58, 32>>)
    \o <<10, 125>>

\* The body a client sends for an object and for an array of strings.
Json(members) == JsonDoc(members, to_string(members))
Array(items) == ArrayDoc(items, <<91>> \o ItemsText(items, 1) \o <<93>>)

\* serde_json's reader.  Every result is [ok, pos, v]: pos is the position
\* after what was read.
Failed == [ok |-> FALSE, pos |-> 0, v |-> << >>]

IsDigit(c) == c \in 48..57
IsHex(c) == c \in 48..57 \/ c \in 65..70 \/ c \in 97..102
HexVal(c) == IF c <= 57 THEN c - 48 ELSE IF c <= 70 THEN c - 55 ELSE c - 87
IsHex4(b, i) == \A k \in 0..3 : IsHex(At(b, i + k))
Hex4(b, i) ==
    HexVal(b[i]) * 4096 + HexVal(b[i + 1]) * 256 + HexVal(b[i + 2]) * 16 + HexVal(b[i + 3])

RECURSIVE SkipWs(_, _)
SkipWs(b, i) == IF At(b, i) \in {32, 9, 10, 13} THEN SkipWs(b, i + 1) ELSE i
RECURSIVE SkipDigits(_, _)
SkipDigits(b, i) == IF IsDigit(At(b, i)) THEN SkipDigits(b, i + 1) ELSE i

\* The character a one-letter escape stands for, -1 for no escape.
SimpleEscape(e) ==
    IF e \in {34, 92, 47} THEN e
    ELSE IF e = 98 THEN 8
    ELSE IF e = 102 THEN 12
    ELSE IF e = 110 THEN 10
    ELSE IF e = 114 THEN 13
    ELSE IF e = 116 THEN 9
    ELSE -1

\* One step of the reader inside a string.  st.strict is lost where only the
\* reader that skips a value (ignore_str) goes on: bytes that are no UTF-8, a
\* surrogate without its pair.
StrStep(b, st) ==
    LET i == st.pos
        c == At(b, i)
        e == At(b, i + 1)
        n == Hex4(b, i + 2)
        u == Utf8At(b, i)
        Take(len, code) ==
            [st EXCEPT !.pos = i + len,
                       !.v = IF st.strict THEN Append(@, Chr(code)) ELSE @]
        Lose(len) == [st EXCEPT !.pos = i + len, !.strict = FALSE]
        Stop(ok) == [st EXCEPT !.done = TRUE, !.ok = ok, !.pos = i + 1]
    IN  IF c < 32 THEN Stop(FALSE)
        ELSE IF c = 34 THEN Stop(TRUE)
        ELSE IF c = 92 THEN
            IF SimpleEscape(e) >= 0 THEN Take(2, SimpleEscape(e))
            ELSE IF e # 117 \/ ~IsHex4(b, i + 2) THEN Stop(FALSE)
            ELSE IF n \in 56320..57343 THEN Lose(6)
            ELSE IF n \in 55296..56319 THEN
                IF /\ At(b, i + 6) = 92 /\ At(b, i + 7) = 117 /\ IsHex4(b, i + 8)
                   /\ Hex4(b, i + 8) \in 56320..57343
                THEN Take(12, 65536 + (n - 55296) * 1024 + (Hex4(b, i + 8) - 56320))
                ELSE Lose(6)
            ELSE Take(6, n)
        ELSE IF u.len = 0 THEN Lose(1)
        ELSE Take(u.len, u.code)

RECURSIVE StrLoop(_, _)
StrLoop(b, st) ==
    IF st.done THEN st
    ELSE CHOOSE r \in {StrLoop(b, s) : s \in {StrStep(b, st)}} : TRUE

\* A string whose opening quote is before position i: [ok, pos, strict, v].
ParseString(b, i) ==
    StrLoop(b, [ok |-> TRUE, done |-> FALSE, pos |-> i, strict |-> TRUE, v |-> << >>])

\* A number: -?(0|[1-9][0-9]*)(\.[0-9]+)?([eE][+-]?[0-9]+)?
ParseNumber(b, i) ==
    LET j == IF At(b, i) = 45 THEN i + 1 ELSE i
        k == IF At(b, j) = 48 THEN (IF IsDigit(At(b, j + 1)) THEN 0 ELSE j + 1)
             ELSE IF At(b, j) \in 49..57 THEN SkipDigits(b, j + 1)
             ELSE 0
        m == IF k = 0 \/ At(b, k) # 46 THEN k
             ELSE IF IsDigit(At(b, k + 1)) THEN SkipDigits(b, k + 2)
             ELSE 0
        s == IF At(b, m + 1) \in {43, 45} THEN m + 2 ELSE m + 1
        p == IF m = 0 \/ At(b, m) \notin {101, 69} THEN m
             ELSE IF IsDigit(At(b, s)) THEN SkipDigits(b, s + 1)
             ELSE 0
    IN  IF p = 0 THEN Failed ELSE [ok |-> TRUE, pos |-> p, v |-> NotAString]

\* true, false, null
ParseLiteral(b, i, word) ==
    IF \A k \in DOMAIN word : At(b, i + k - 1) = word[k]
    THEN [ok |-> TRUE, pos |-> i + Len(word), v |-> NotAString]
    ELSE Failed

RECURSIVE ParseValue(_, _), ParseObject(_, _, _), ParseMembers(_, _, _, _),
          MemberAfterKey(_, _, _, _), MemberAfterValue(_, _, _, _, _),
          ParseArray(_, _), ParseItems(_, _, _), ItemAfterValue(_, _, _)

\* The value that starts at position i.
ParseValue(b, i) ==
    LET c == At(b, i)
        AsValue(r, v) == IF r.ok THEN [ok |-> TRUE, pos |-> r.pos, v |-> v] ELSE Failed
    IN  IF c = 34 THEN
            CHOOSE r \in {AsValue(s, IF s.strict THEN s.v ELSE NotAString) :
                            s \in {ParseString(b, i + 1)}} : TRUE
        ELSE IF c = 123 THEN
            CHOOSE r \in {AsValue(o, NotAString) : o \in {ParseObject(b, i + 1, FALSE)}} : TRUE
        ELSE IF c = 91 THEN
            CHOOSE r \in {AsValue(a, NotAString) : a \in {ParseArray(b, i + 1)}} : TRUE
        ELSE IF c = 116 THEN ParseLiteral(b, i, <<116, 114, 117, 101>>)
        ELSE IF c = 102 THEN ParseLiteral(b, i, <<102, 97, 108, 115, 101>>)
        ELSE IF c = 110 THEN ParseLiteral(b, i, <<110, 117, 108, 108>>)
        ELSE IF c = 45 \/ IsDigit(c) THEN ParseNumber(b, i)
        ELSE Failed

\* An object whose brace is before position i: its members.  The keys of the
\* object a struct is read from are read as strings (keys = TRUE), those of an
\* object that is skipped are skipped.
ParseObject(b, i, keys) ==
    CHOOSE r \in {IF At(b, j) = 125 THEN [ok |-> TRUE, pos |-> j + 1, v |-> << >>]
                  ELSE ParseMembers(b, j, << >>, keys) : j \in {SkipWs(b, i)}} : TRUE

ParseMembers(b, j, acc, keys) ==
    IF At(b, j) # 34 THEN Failed
    ELSE CHOOSE r \in {MemberAfterKey(b, key, acc, keys) :
                        key \in {ParseString(b, j + 1)}} : TRUE

MemberAfterKey(b, key, acc, keys) ==
    IF ~key.ok \/ (keys /\ ~key.strict) THEN Failed
    ELSE CHOOSE r \in
            {IF At(b, k) # 58 THEN Failed
             ELSE CHOOSE q \in {MemberAfterValue(b, key, val, acc, keys) :
                                 val \in {ParseValue(b, SkipWs(b, k + 1))}} : TRUE :
                k \in {SkipWs(b, key.pos)}} : TRUE

MemberAfterValue(b, key, val, acc, keys) ==
    IF ~val.ok THEN Failed
    ELSE CHOOSE r \in
            {IF At(b, m) = 44
                THEN ParseMembers(b, SkipWs(b, m + 1), Append(acc, <<Text(key.v), val.v>>), keys)
             ELSE IF At(b, m) = 125
                THEN [ok |-> TRUE, pos |-> m + 1, v |-> Append(acc, <<Text(key.v), val.v>>)]
             ELSE Failed :
                m \in {SkipWs(b, val.pos)}} : TRUE

\* An array whose bracket is before position i: its items.
ParseArray(b, i) ==
    CHOOSE r \in {IF At(b, j) = 93 THEN [ok |-> TRUE, pos |-> j + 1, v |-> << >>]
                  ELSE ParseItems(b, j, << >>) : j \in {SkipWs(b, i)}} : TRUE

ParseItems(b, j, acc) ==
    CHOOSE r \in {ItemAfterValue(b, val, acc) : val \in {ParseValue(b, j)}} : TRUE

ItemAfterValue(b, val, acc) ==
    IF ~val.ok THEN Failed
    ELSE CHOOSE r \in
            {IF At(b, m) = 44 THEN ParseItems(b, SkipWs(b, m + 1), Append(acc, val.v))
             ELSE IF At(b, m) = 93
                THEN [ok |-> TRUE, pos |-> m + 1, v |-> Append(acc, val.v)]
             ELSE Failed :
                m \in {SkipWs(b, val.pos)}} : TRUE

\* What the bytes b spell for a reader of a struct: an object or an array,
\* with nothing but white space around it.
Document(b) ==
    LET i == SkipWs(b, 1)
        Whole(r) == r.ok /\ SkipWs(b, r.pos) > Len(b)
    IN  IF At(b, i) = 123 THEN
            CHOOSE d \in {IF Whole(r) THEN JsonDoc(r.v, b) ELSE RawDoc(b) :
                            r \in {ParseObject(b, i + 1, TRUE)}} : TRUE
        ELSE IF At(b, i) = 91 THEN
            CHOOSE d \in {IF Whole(r) THEN ArrayDoc(r.v, b) ELSE RawDoc(b) :
                            r \in {ParseArray(b, i + 1)}} : TRUE
        ELSE RawDoc(b)

\* A file or a body that holds the bytes b.
Bytes(b) == CHOOSE d \in {Document(x) : x \in {b}} : TRUE

KeyCount(members, k) == Cardinality({i \in DOMAIN members : members[i][1] = k})
ValueOf(members, k) == members[CHOOSE i \in DOMAIN members : members[i][1] = k][2]

\* serde_json::from_slice / from_reader into a derived struct whose fields
\* (given in declaration order) are all strings.  From a JSON object every
\* field must occur exactly once, with a string, and other members are
\* ignored; from a JSON array the items are the fields in declaration order,
\* no fewer and no more, each a string.
FromDocument(doc, fields) ==
    LET names == {fields[i] : i \in DOMAIN fields} IN
    IF doc.t = "json" THEN
        IF \E k \in names : KeyCount(doc.json, k) # 1 \/ ValueOf(doc.json, k) = NotAString
        THEN [ok |-> FALSE, err |-> "JsonError"]
        ELSE [ok |-> TRUE, err |-> "", v |-> [k \in names |-> ValueOf(doc.json, k)]]
    ELSE IF doc.t = "array" THEN
        IF Len(doc.array) # Len(fields) \/ \E i \in DOMAIN doc.array : doc.array[i] = NotAString
        THEN [ok |-> FALSE, err |-> "JsonError"]
        ELSE [ok |-> TRUE, err |-> "",
              v |-> [k \in names |->
                        doc.array[CHOOSE i \in DOMAIN fields : fields[i] = k]]]
    ELSE [ok |-> FALSE, err |-> "JsonError"]
\* (The document is read once.)
Deserialize(doc, fields) == CHOOSE res \in {FromDocument(d, fields) : d \in {doc}} : TRUE

\* page.rs:196 struct PageDetail
PageDetailFields == <<"name", "title", "content">>

\* page.rs:203 PageDetail::parse
PageDetail_parse(data) == Deserialize(data, PageDetailFields)

DetailMembers(d) == << <<"name", d.name>>, <<"title", d.title>>, <<"content", d.content>> >>

\* page.rs:268 serde_json::to_writer_pretty of a PageDetail: the file written.
SerializeDetail(d) == JsonDoc(DetailMembers(d), to_writer_pretty(DetailMembers(d)))

\* lib.rs:118 serde_json::to_string of a PageDetail: the body of the response.
DetailJson(d) == JsonDoc(DetailMembers(d), to_string(DetailMembers(d)))

\* web.rs:150 serde_json::to_writer_pretty of a web.rs Page
SerializePage(page) ==
    LET members == << <<"name", page.name>>, <<"content", page.content>> >> IN
    JsonDoc(members, to_writer_pretty(members))

\* web.rs:175 WebStub::parse deserializes a web.rs Page {name, content}.
WebStub_parse(data) == Deserialize(data, <<"name", "content">>)

\* page.rs:115 AttachmentData::parse
AttachmentData_parse(data) == Deserialize(data, <<"file_name", "encoded_data">>)

----------------------------------------------------------------------------
(* base64 (the standard alphabet, padded).                                 *)

B64Alphabet ==
    <<
        "A","B","C","D","E","F","G","H","I","J","K","L","M","N","O","P",
        "Q","R","S","T","U","V","W","X","Y","Z","a","b","c","d","e","f",
        "g","h","i","j","k","l","m","n","o","p","q","r","s","t","u","v",
        "w","x","y","z","0","1","2","3","4","5","6","7","8","9","+","/" >>
B64Pad == "="

B64Index(c) == CHOOSE i \in 1..Len(B64Alphabet) : B64Alphabet[i] = c
B64Val(c) == B64Index(c) - 1
IsB64Char(c) == \E i \in 1..Len(B64Alphabet) : B64Alphabet[i] = c

\* The bytes of one group of four characters.
B64Group(g) ==
    LET v1 == B64Val(g[1])
        v2 == B64Val(g[2])
        b1 == v1 * 4 + (v2 \div 16)
    IN  IF g[3] = B64Pad THEN <<b1>>
        ELSE LET v3 == B64Val(g[3])
                 b2 == (v2 % 16) * 16 + (v3 \div 4)
             IN  IF g[4] = B64Pad THEN <<b1, b2>>
                 ELSE <<b1, b2, (v3 % 4) * 64 + B64Val(g[4])>>

\* A group is well formed when its characters are of the alphabet, padding
\* only at its end and only in the last group, and the bits of its last
\* character that belong to no byte are zero (DecodeError::InvalidLastSymbol
\* otherwise).
B64GroupOk(g, last) ==
    /\ IsB64Char(g[1]) /\ IsB64Char(g[2])
    /\ \/ IsB64Char(g[3]) /\ IsB64Char(g[4])
       \/ last /\ IsB64Char(g[3]) /\ g[4] = B64Pad /\ B64Val(g[3]) % 4 = 0
       \/ last /\ g[3] = B64Pad /\ g[4] = B64Pad /\ B64Val(g[2]) % 16 = 0

RECURSIVE B64DecodeGroups(_)
B64DecodeGroups(s) ==
    IF s = << >> THEN << >>
    ELSE B64Group(SubSeq(s, 1, 4)) \o B64DecodeGroups(SubSeq(s, 5, Len(s)))

\* base64::decode
base64_decode(s) ==
    IF Len(s) % 4 # 0 THEN [ok |-> FALSE, v |-> << >>]
    ELSE IF \E k \in 0..((Len(s) \div 4) - 1) :
                ~B64GroupOk(SubSeq(s, 4 * k + 1, 4 * k + 4), 4 * k + 4 = Len(s))
         THEN [ok |-> FALSE, v |-> << >>]
    ELSE [ok |-> TRUE, v |-> B64DecodeGroups(s)]

\* The encoding a client sends for bytes b (the inverse the round trip is
\* stated against).
RECURSIVE base64_encode(_)
base64_encode(b) ==
    IF b = << >> THEN << >>
    ELSE LET n == IF Len(b) >= 3 THEN 3 ELSE Len(b)
             x1 == b[1]
             x2 == IF n >= 2 THEN b[2] ELSE 0
             x3 == IF n >= 3 THEN b[3] ELSE 0
             c1 == B64Alphabet[(x1 \div 4) + 1]
             c2 == B64Alphabet[((x1 % 4) * 16 + (x2 \div 16)) + 1]
             c3 == IF n >= 2 THEN B64Alphabet[((x2 % 16) * 4 + (x3 \div 64)) + 1] ELSE B64Pad
             c4 == IF n >= 3 THEN B64Alphabet[(x3 % 64) + 1] ELSE B64Pad
         IN  <<c1, c2, c3, c4>> \o base64_encode(SubSeq(b, n + 1, Len(b)))

\* page.rs:120 AttachmentData::data
AttachmentData_data(att) == base64_decode(att.encoded_data)

----------------------------------------------------------------------------
(* The store: page.rs and web.rs.                                          *)

\* The wiki root directory handed to run(): Webs { path }.
RootName == <<"r">>
WebsPath == <<RootName>>

\* impl From<io::Error> for PageError / AttachmentError / WebError
IoErrorKind(e) == IF e = "NotFound" THEN "NotFound" ELSE "IoError"

NoDetail == [name |-> << >>, title |-> << >>, content |-> << >>]
MkPage(path, detail) == [path |-> path, detail |-> detail]

\* Page::open without the comparison of the stored name with the directory's.
Page_open_nocheck(f, path) ==
    IF ~PathExists(f, path) THEN [ok |-> FALSE, err |-> "NotFound"]
    ELSE IF ~PathIsDir(f, path) THEN [ok |-> FALSE, err |-> "NotDirectory"]
    ELSE LET file_name == PathFileName(path) IN
    IF ~file_name.some THEN [ok |-> FALSE, err |-> "InvalidPath"]
    ELSE IF ~IsUtf8(file_name.v) THEN [ok |-> FALSE, err |-> "Utf8Error"]
    ELSE LET detail_file == FsReadFile(f, PathPush(path, PAGE_FILENAME)) IN
    IF ~detail_file.ok /\ detail_file.err = "IsADirectory"
        THEN [ok |-> FALSE, err |-> "JsonError"]
    ELSE IF ~detail_file.ok THEN [ok |-> FALSE, err |-> IoErrorKind(detail_file.err)]
    ELSE LET detail == Deserialize(detail_file.data, PageDetailFields) IN
    IF ~detail.ok THEN [ok |-> FALSE, err |-> "JsonError"]
    ELSE [ok |-> TRUE, err |-> "", page |-> MkPage(path, detail.v)]

\* page.rs:216 Page::open
Page_open(f, path) ==
    IF ~PathExists(f, path) THEN [ok |-> FALSE, err |-> "NotFound"]
    ELSE IF ~PathIsDir(f, path) THEN [ok |-> FALSE, err |-> "NotDirectory"]
    ELSE LET file_name == PathFileName(path) IN
    IF ~file_name.some THEN [ok |-> FALSE, err |-> "InvalidPath"]
    ELSE IF ~IsUtf8(file_name.v) THEN [ok |-> FALSE, err |-> "Utf8Error"]
    ELSE LET expected_name == file_name.v
             detail_file == FsReadFile(f, PathPush(path, PAGE_FILENAME))
         IN
    IF ~detail_file.ok /\ detail_file.err = "IsADirectory"
        THEN [ok |-> FALSE, err |-> "JsonError"]
    ELSE IF ~detail_file.ok THEN [ok |-> FALSE, err |-> IoErrorKind(detail_file.err)]
    ELSE LET detail == Deserialize(detail_file.data, PageDetailFields) IN
    IF ~detail.ok THEN [ok |-> FALSE, err |-> "JsonError"]
    ELSE IF detail.v.name # expected_name THEN [ok |-> FALSE, err |-> "NameMismatch"]
    ELSE [ok |-> TRUE, err |-> "", page |-> MkPage(path, detail.v)]

\* Page::write leaving the file with the content of the detail cut off.
Page_write_torn(f, page) ==
    LET detail_file == FsWriteFile(f, PathPush(page.path, PAGE_FILENAME),
                                   SerializeDetail([page.detail EXCEPT !.content = << >>]))
    IN  IF ~detail_file.ok
        THEN [ok |-> FALSE, err |-> IoErrorKind(detail_file.err), fs |-> f]
        ELSE [ok |-> TRUE, err |-> "", fs |-> detail_file.fs]

\* page.rs:264 Page::write
\* (The file is written once.)
Page_write(f, page) ==
    CHOOSE res \in
        {IF ~detail_file.ok
         THEN [ok |-> FALSE, err |-> IoErrorKind(detail_file.err), fs |-> f]
         ELSE [ok |-> TRUE, err |-> "", fs |-> detail_file.fs] :
            detail_file \in {FsWriteFile(f, PathPush(page.path, PAGE_FILENAME),
                                          SerializeDetail(page.detail))}} : TRUE

\* Page::create without the test of page.rs:250: fs::create_dir reports the
\* existing directory.
Page_create_nocheck(f, page) ==
    LET dir == FsCreateDir(f, page.path) IN
    IF ~dir.ok THEN [ok |-> FALSE, err |-> IoErrorKind(dir.err), fs |-> f]
    ELSE Page_write(dir.fs, page)

\* page.rs:249 Page::create
Page_create(f, page) ==
    IF PathExists(f, page.path) THEN [ok |-> FALSE, err |-> "OverwriteError", fs |-> f]
    ELSE LET dir == FsCreateDir(f, page.path) IN
         IF ~dir.ok THEN [ok |-> FALSE, err |-> IoErrorKind(dir.err), fs |-> f]
         ELSE Page_write(dir.fs, page)

\* Page::update that creates the page when its directory is missing.
Page_update_upsert(f, page) ==
    IF ~PathExists(f, page.path) THEN Page_create(f, page)
    ELSE Page_write(f, page)

\* page.rs:257 Page::update
Page_update(f, page) ==
    IF ~PathExists(f, page.path) THEN [ok |-> FALSE, err |-> "NotFound", fs |-> f]
    ELSE Page_write(f, page)

\* The ways the filesystem can fail under Page::write: File::create fails
\* (page.rs:267), or it succeeds - the file now exists and is empty - and the
\* write of the serialized detail (page.rs:268) fails after no byte or after
\* the first one.
IoFaults == {"create", "write0", "write1"}

\* page.rs:264 Page::write when the filesystem fails in the way io.  The error
\* of to_writer_pretty is a serde_json::Error, a JsonError by page.rs:189-193.
Page_write_failing(f, page, io) ==
    IF io = "create" THEN [ok |-> FALSE, err |-> "IoError", fs |-> f]
    ELSE LET partial == IF io = "write0" THEN << >> ELSE <<123>>
             detail_file == FsWriteFile(f, PathPush(page.path, PAGE_FILENAME), Bytes(partial))
         IN  IF ~detail_file.ok
             THEN [ok |-> FALSE, err |-> IoErrorKind(detail_file.err), fs |-> f]
             ELSE [ok |-> FALSE, err |-> "JsonError", fs |-> detail_file.fs]

\* page.rs:257 Page::update when the filesystem fails in the way io.
Page_update_failing(f, page, io) ==
    IF ~PathExists(f, page.path) THEN [ok |-> FALSE, err |-> "NotFound", fs |-> f]
    ELSE Page_write_failing(f, page, io)

\* The ways the filesystem can fail under Page::create: fs::create_dir fails
\* (page.rs:253), or it succeeds and Page::write fails in one of its ways.
CreateFaults == {"create_dir"} \cup IoFaults

\* page.rs:249 Page::create when the filesystem fails in the way io.
Page_create_failing(f, page, io) ==
    IF PathExists(f, page.path) THEN [ok |-> FALSE, err |-> "OverwriteError", fs |-> f]
    ELSE IF io = "create_dir" THEN [ok |-> FALSE, err |-> "IoError", fs |-> f]
    ELSE LET dir == FsCreateDir(f, page.path) IN
         IF ~dir.ok THEN [ok |-> FALSE, err |-> IoErrorKind(dir.err), fs |-> f]
         ELSE Page_write_failing(dir.fs, page, io)

\* page.rs:70 Attachment::open
Attachment_open(f, path) ==
    IF ~PathExists(f, path) THEN [ok |-> FALSE, err |-> "NotFound"]
    ELSE [ok |-> TRUE, err |-> "", att |-> [path |-> path]]

\* page.rs:77 Attachment::data: the bytes of the file, data.bytes, kept with
\* what they spell.
Attachment_data(f, att) ==
    LET file == FsReadFile(f, att.path) IN
    IF ~file.ok THEN [ok |-> FALSE, err |-> IoErrorKind(file.err)]
    ELSE [ok |-> TRUE, err |-> "", data |-> file.data]

\* page.rs:294 Page::get_attachment
Page_get_attachment(f, page, file_name) ==
    Attachment_open(f, PathPush(PathPush(page.path, ATTACHMENTS_DIRECTORY), file_name))

\* Page::save_attachment writing the file into the page directory itself.
Page_save_attachment_flat(f, page, att_data) ==
    LET data == AttachmentData_data(att_data)
        att_dir == PathPush(page.path, ATTACHMENTS_DIRECTORY)
    IN
    IF ~data.ok THEN [ok |-> FALSE, err |-> "Base64Error", fs |-> f]
    ELSE LET dir == IF ~PathExists(f, att_dir) THEN FsCreateDir(f, att_dir)
                    ELSE [ok |-> TRUE, err |-> "", fs |-> f]
         IN
    IF ~dir.ok THEN [ok |-> FALSE, err |-> IoErrorKind(dir.err), fs |-> f]
    ELSE LET att_file == FsWriteFile(dir.fs, PathPush(page.path, att_data.file_name),
                                     Bytes(data.v))
         IN
    IF ~att_file.ok THEN [ok |-> FALSE, err |-> IoErrorKind(att_file.err), fs |-> dir.fs]
    ELSE [ok |-> TRUE, err |-> "", fs |-> att_file.fs]

\* Page::save_attachment that creates the file before it decodes the payload.
Page_save_attachment_late(f, page, att_data) ==
    LET data == AttachmentData_data(att_data)
        att_dir == PathPush(page.path, ATTACHMENTS_DIRECTORY)
        dir == IF ~PathExists(f, att_dir) THEN FsCreateDir(f, att_dir)
               ELSE [ok |-> TRUE, err |-> "", fs |-> f]
    IN
    IF ~dir.ok THEN [ok |-> FALSE, err |-> IoErrorKind(dir.err), fs |-> f]
    ELSE LET att_file == FsWriteFile(dir.fs, PathPush(att_dir, att_data.file_name),
                                     Bytes(IF data.ok THEN data.v ELSE << >>))
         IN
    IF ~att_file.ok THEN [ok |-> FALSE, err |-> IoErrorKind(att_file.err), fs |-> dir.fs]
    ELSE IF ~data.ok THEN [ok |-> FALSE, err |-> "Base64Error", fs |-> att_file.fs]
    ELSE [ok |-> TRUE, err |-> "", fs |-> att_file.fs]

\* page.rs:301 Page::save_attachment
\* (The payload is decoded once.)
Page_save_attachment(f, page, att_data) ==
    LET att_dir == PathPush(page.path, ATTACHMENTS_DIRECTORY) IN
    CHOOSE res \in
        {IF ~data.ok THEN [ok |-> FALSE, err |-> "Base64Error", fs |-> f]
         ELSE LET dir == IF ~PathExists(f, att_dir) THEN FsCreateDir(f, att_dir)
                         ELSE [ok |-> TRUE, err |-> "", fs |-> f]
              IN
         IF ~dir.ok THEN [ok |-> FALSE, err |-> IoErrorKind(dir.err), fs |-> f]
         ELSE LET att_file == FsWriteFile(dir.fs, PathPush(att_dir, att_data.file_name),
                                          Bytes(data.v))
              IN
         IF ~att_file.ok
         THEN [ok |-> FALSE, err |-> IoErrorKind(att_file.err), fs |-> dir.fs]
         ELSE [ok |-> TRUE, err |-> "", fs |-> att_file.fs] :
            data \in {AttachmentData_data(att_data)}} : TRUE

\* The class \w of the regex crate is the Unicode one: Alphabetic, the marks,
\* the decimal digits, the connector punctuation and the two join controls.
\* WordChars are its characters up to U+00FF: the letters, digits and
\* underscore of ASCII, and the letters of Latin-1.
WordChars ==
    {Ascii[n - 31] : n \in (48..57) \cup (65..90) \cup {95} \cup (97..122)}
    \cup {Latin1[n - 159] :
            n \in {170, 181, 186} \cup (192..214) \cup (216..246) \cup (248..255)}

\* Its code points above U+00FF, as ranges: the table of Unicode 16.0 that
\* the regex crate carries (the sources pin no version of the crate).
WordRanges ==
    << <<256,705>>,<<710,721>>,<<736,740>>,<<748,748>>,
        <<750,750>>,<<768,884>>,<<886,887>>,<<890,893>>,
        <<895,895>>,<<902,902>>,<<904,906>>,<<908,908>>,
        <<910,929>>,<<931,1013>>,<<1015,1153>>,<<1155,1327>>,
        <<1329,1366>>,<<1369,1369>>,<<1376,1416>>,<<1425,1469>>,
        <<1471,1471>>,<<1473,1474>>,<<1476,1477>>,<<1479,1479>>,
        <<1488,1514>>,<<1519,1522>>,<<1552,1562>>,<<1568,1641>>,
        <<1646,1747>>,<<1749,1756>>,<<1759,1768>>,<<1770,1788>>,
        <<1791,1791>>,<<1808,1866>>,<<1869,1969>>,<<1984,2037>>,
        <<2042,2042>>,<<2045,2045>>,<<2048,2093>>,<<2112,2139>>,
        <<2144,2154>>,<<2160,2183>>,<<2185,2190>>,<<2199,2273>>,
        <<2275,2403>>,<<2406,2415>>,<<2417,2435>>,<<2437,2444>>,
        <<2447,2448>>,<<2451,2472>>,<<2474,2480>>,<<2482,2482>>,
        <<2486,2489>>,<<2492,2500>>,<<2503,2504>>,<<2507,2510>>,
        <<2519,2519>>,<<2524,2525>>,<<2527,2531>>,<<2534,2545>>,
        <<2556,2556>>,<<2558,2558>>,<<2561,2563>>,<<2565,2570>>,
        <<2575,2576>>,<<2579,2600>>,<<2602,2608>>,<<2610,2611>>,
        <<2613,2614>>,<<2616,2617>>,<<2620,2620>>,<<2622,2626>>,
        <<2631,2632>>,<<2635,2637>>,<<2641,2641>>,<<2649,2652>>,
        <<2654,2654>>,<<2662,2677>>,<<2689,2691>>,<<2693,2701>>,
        <<2703,2705>>,<<2707,2728>>,<<2730,2736>>,<<2738,2739>>,
        <<2741,2745>>,<<2748,2757>>,<<2759,2761>>,<<2763,2765>>,
        <<2768,2768>>,<<2784,2787>>,<<2790,2799>>,<<2809,2815>>,
        <<2817,2819>>,<<2821,2828>>,<<2831,2832>>,<<2835,2856>>,
        <<2858,2864>>,<<2866,2867>>,<<2869,2873>>,<<2876,2884>>,
        <<2887,2888>>,<<2891,2893>>,<<2901,2903>>,<<2908,2909>>,
        <<2911,2915>>,<<2918,2927>>,<<2929,2929>>,<<2946,2947>>,
        <<2949,2954>>,<<2958,2960>>,<<2962,2965>>,<<2969,2970>>,
        <<2972,2972>>,<<2974,2975>>,<<2979,2980>>,<<2984,2986>>,
        <<2990,3001>>,<<3006,3010>>,<<3014,3016>>,<<3018,3021>>,
        <<3024,3024>>,<<3031,3031>>,<<3046,3055>>,<<3072,3084>>,
        <<3086,3088>>,<<3090,3112>>,<<3114,3129>>,<<3132,3140>>,
        <<3142,3144>>,<<3146,3149>>,<<3157,3158>>,<<3160,3162>>,
        <<3165,3165>>,<<3168,3171>>,<<3174,3183>>,<<3200,3203>>,
        <<3205,3212>>,<<3214,3216>>,<<3218,3240>>,<<3242,3251>>,
        <<3253,3257>>,<<3260,3268>>,<<3270,3272>>,<<3274,3277>>,
        <<3285,3286>>,<<3293,3294>>,<<3296,3299>>,<<3302,3311>>,
        <<3313,3315>>,<<3328,3340>>,<<3342,3344>>,<<3346,3396>>,
        <<3398,3400>>,<<3402,3406>>,<<3412,3415>>,<<3423,3427>>,
        <<3430,3439>>,<<3450,3455>>,<<3457,3459>>,<<3461,3478>>,
        <<3482,3505>>,<<3507,3515>>,<<3517,3517>>,<<3520,3526>>,
        <<3530,3530>>,<<3535,3540>>,<<3542,3542>>,<<3544,3551>>,
        <<3558,3567>>,<<3570,3571>>,<<3585,3642>>,<<3648,3662>>,
        <<3664,3673>>,<<3713,3714>>,<<3716,3716>>,<<3718,3722>>,
        <<3724,3747>>,<<3749,3749>>,<<3751,3773>>,<<3776,3780>>,
        <<3782,3782>>,<<3784,3790>>,<<3792,3801>>,<<3804,3807>>,
        <<3840,3840>>,<<3864,3865>>,<<3872,3881>>,<<3893,3893>>,
        <<3895,3895>>,<<3897,3897>>,<<3902,3911>>,<<3913,3948>>,
        <<3953,3972>>,<<3974,3991>>,<<3993,4028>>,<<4038,4038>>,
        <<4096,4169>>,<<4176,4253>>,<<4256,4293>>,<<4295,4295>>,
        <<4301,4301>>,<<4304,4346>>,<<4348,4680>>,<<4682,4685>>,
        <<4688,4694>>,<<4696,4696>>,<<4698,4701>>,<<4704,4744>>,
        <<4746,4749>>,<<4752,4784>>,<<4786,4789>>,<<4792,4798>>,
        <<4800,4800>>,<<4802,4805>>,<<4808,4822>>,<<4824,4880>>,
        <<4882,4885>>,<<4888,4954>>,<<4957,4959>>,<<4992,5007>>,
        <<5024,5109>>,<<5112,5117>>,<<5121,5740>>,<<5743,5759>>,
        <<5761,5786>>,<<5792,5866>>,<<5870,5880>>,<<5888,5909>>,
        <<5919,5940>>,<<5952,5971>>,<<5984,5996>>,<<5998,6000>>,
        <<6002,6003>>,<<6016,6099>>,<<6103,6103>>,<<6108,6109>>,
        <<6112,6121>>,<<6155,6157>>,<<6159,6169>>,<<6176,6264>>,
        <<6272,6314>>,<<6320,6389>>,<<6400,6430>>,<<6432,6443>>,
        <<6448,6459>>,<<6470,6509>>,<<6512,6516>>,<<6528,6571>>,
        <<6576,6601>>,<<6608,6617>>,<<6656,6683>>,<<6688,6750>>,
        <<6752,6780>>,<<6783,6793>>,<<6800,6809>>,<<6823,6823>>,
        <<6832,6862>>,<<6912,6988>>,<<6992,7001>>,<<7019,7027>>,
        <<7040,7155>>,<<7168,7223>>,<<7232,7241>>,<<7245,7293>>,
        <<7296,7306>>,<<7312,7354>>,<<7357,7359>>,<<7376,7378>>,
        <<7380,7418>>,<<7424,7957>>,<<7960,7965>>,<<7968,8005>>,
        <<8008,8013>>,<<8016,8023>>,<<8025,8025>>,<<8027,8027>>,
        <<8029,8029>>,<<8031,8061>>,<<8064,8116>>,<<8118,8124>>,
        <<8126,8126>>,<<8130,8132>>,<<8134,8140>>,<<8144,8147>>,
        <<8150,8155>>,<<8160,8172>>,<<8178,8180>>,<<8182,8188>>,
        <<8204,8205>>,<<8255,8256>>,<<8276,8276>>,<<8305,8305>>,
        <<8319,8319>>,<<8336,8348>>,<<8400,8432>>,<<8450,8450>>,
        <<8455,8455>>,<<8458,8467>>,<<8469,8469>>,<<8473,8477>>,
        <<8484,8484>>,<<8486,8486>>,<<8488,8488>>,<<8490,8493>>,
        <<8495,8505>>,<<8508,8511>>,<<8517,8521>>,<<8526,8526>>,
        <<8544,8584>>,<<9398,9449>>,<<11264,11492>>,<<11499,11507>>,
        <<11520,11557>>,<<11559,11559>>,<<11565,11565>>,<<11568,11623>>,
        <<11631,11631>>,<<11647,11670>>,<<11680,11686>>,<<11688,11694>>,
        <<11696,11702>>,<<11704,11710>>,<<11712,11718>>,<<11720,11726>>,
        <<11728,11734>>,<<11736,11742>>,<<11744,11775>>,<<11823,11823>>,
        <<12293,12295>>,<<12321,12335>>,<<12337,12341>>,<<12344,12348>>,
        <<12353,12438>>,<<12441,12442>>,<<12445,12447>>,<<12449,12538>>,
        <<12540,12543>>,<<12549,12591>>,<<12593,12686>>,<<12704,12735>>,
        <<12784,12799>>,<<13312,19903>>,<<19968,42124>>,<<42192,42237>>,
        <<42240,42508>>,<<42512,42539>>,<<42560,42610>>,<<42612,42621>>,
        <<42623,42737>>,<<42775,42783>>,<<42786,42888>>,<<42891,42957>>,
        <<42960,42961>>,<<42963,42963>>,<<42965,42972>>,<<42994,43047>>,
        <<43052,43052>>,<<43072,43123>>,<<43136,43205>>,<<43216,43225>>,
        <<43232,43255>>,<<43259,43259>>,<<43261,43309>>,<<43312,43347>>,
        <<43360,43388>>,<<43392,43456>>,<<43471,43481>>,<<43488,43518>>,
        <<43520,43574>>,<<43584,43597>>,<<43600,43609>>,<<43616,43638>>,
        <<43642,43714>>,<<43739,43741>>,<<43744,43759>>,<<43762,43766>>,
        <<43777,43782>>,<<43785,43790>>,<<43793,43798>>,<<43808,43814>>,
        <<43816,43822>>,<<43824,43866>>,<<43868,43881>>,<<43888,44010>>,
        <<44012,44013>>,<<44016,44025>>,<<44032,55203>>,<<55216,55238>>,
        <<55243,55291>>,<<63744,64109>>,<<64112,64217>>,<<64256,64262>>,
        <<64275,64279>>,<<64285,64296>>,<<64298,64310>>,<<64312,64316>>,
        <<64318,64318>>,<<64320,64321>>,<<64323,64324>>,<<64326,64433>>,
        <<64467,64829>>,<<64848,64911>>,<<64914,64967>>,<<65008,65019>>,
        <<65024,65039>>,<<65056,65071>>,<<65075,65076>>,<<65101,65103>>,
        <<65136,65140>>,<<65142,65276>>,<<65296,65305>>,<<65313,65338>>,
        <<65343,65343>>,<<65345,65370>>,<<65382,65470>>,<<65474,65479>>,
        <<65482,65487>>,<<65490,65495>>,<<65498,65500>>,<<65536,65547>>,
        <<65549,65574>>,<<65576,65594>>,<<65596,65597>>,<<65599,65613>>,
        <<65616,65629>>,<<65664,65786>>,<<65856,65908>>,<<66045,66045>>,
        <<66176,66204>>,<<66208,66256>>,<<66272,66272>>,<<66304,66335>>,
        <<66349,66378>>,<<66384,66426>>,<<66432,66461>>,<<66464,66499>>,
        <<66504,66511>>,<<66513,66517>>,<<66560,66717>>,<<66720,66729>>,
        <<66736,66771>>,<<66776,66811>>,<<66816,66855>>,<<66864,66915>>,
        <<66928,66938>>,<<66940,66954>>,<<66956,66962>>,<<66964,66965>>,
        <<66967,66977>>,<<66979,66993>>,<<66995,67001>>,<<67003,67004>>,
        <<67008,67059>>,<<67072,67382>>,<<67392,67413>>,<<67424,67431>>,
        <<67456,67461>>,<<67463,67504>>,<<67506,67514>>,<<67584,67589>>,
        <<67592,67592>>,<<67594,67637>>,<<67639,67640>>,<<67644,67644>>,
        <<67647,67669>>,<<67680,67702>>,<<67712,67742>>,<<67808,67826>>,
        <<67828,67829>>,<<67840,67861>>,<<67872,67897>>,<<67968,68023>>,
        <<68030,68031>>,<<68096,68099>>,<<68101,68102>>,<<68108,68115>>,
        <<68117,68119>>,<<68121,68149>>,<<68152,68154>>,<<68159,68159>>,
        <<68192,68220>>,<<68224,68252>>,<<68288,68295>>,<<68297,68326>>,
        <<68352,68405>>,<<68416,68437>>,<<68448,68466>>,<<68480,68497>>,
        <<68608,68680>>,<<68736,68786>>,<<68800,68850>>,<<68864,68903>>,
        <<68912,68921>>,<<68928,68965>>,<<68969,68973>>,<<68975,68997>>,
        <<69248,69289>>,<<69291,69292>>,<<69296,69297>>,<<69314,69316>>,
        <<69372,69404>>,<<69415,69415>>,<<69424,69456>>,<<69488,69509>>,
        <<69552,69572>>,<<69600,69622>>,<<69632,69702>>,<<69734,69749>>,
        <<69759,69818>>,<<69826,69826>>,<<69840,69864>>,<<69872,69881>>,
        <<69888,69940>>,<<69942,69951>>,<<69956,69959>>,<<69968,70003>>,
        <<70006,70006>>,<<70016,70084>>,<<70089,70092>>,<<70094,70106>>,
        <<70108,70108>>,<<70144,70161>>,<<70163,70199>>,<<70206,70209>>,
        <<70272,70278>>,<<70280,70280>>,<<70282,70285>>,<<70287,70301>>,
        <<70303,70312>>,<<70320,70378>>,<<70384,70393>>,<<70400,70403>>,
        <<70405,70412>>,<<70415,70416>>,<<70419,70440>>,<<70442,70448>>,
        <<70450,70451>>,<<70453,70457>>,<<70459,70468>>,<<70471,70472>>,
        <<70475,70477>>,<<70480,70480>>,<<70487,70487>>,<<70493,70499>>,
        <<70502,70508>>,<<70512,70516>>,<<70528,70537>>,<<70539,70539>>,
        <<70542,70542>>,<<70544,70581>>,<<70583,70592>>,<<70594,70594>>,
        <<70597,70597>>,<<70599,70602>>,<<70604,70611>>,<<70625,70626>>,
        <<70656,70730>>,<<70736,70745>>,<<70750,70753>>,<<70784,70853>>,
        <<70855,70855>>,<<70864,70873>>,<<71040,71093>>,<<71096,71104>>,
        <<71128,71133>>,<<71168,71232>>,<<71236,71236>>,<<71248,71257>>,
        <<71296,71352>>,<<71360,71369>>,<<71376,71395>>,<<71424,71450>>,
        <<71453,71467>>,<<71472,71481>>,<<71488,71494>>,<<71680,71738>>,
        <<71840,71913>>,<<71935,71942>>,<<71945,71945>>,<<71948,71955>>,
        <<71957,71958>>,<<71960,71989>>,<<71991,71992>>,<<71995,72003>>,
        <<72016,72025>>,<<72096,72103>>,<<72106,72151>>,<<72154,72161>>,
        <<72163,72164>>,<<72192,72254>>,<<72263,72263>>,<<72272,72345>>,
        <<72349,72349>>,<<72368,72440>>,<<72640,72672>>,<<72688,72697>>,
        <<72704,72712>>,<<72714,72758>>,<<72760,72768>>,<<72784,72793>>,
        <<72818,72847>>,<<72850,72871>>,<<72873,72886>>,<<72960,72966>>,
        <<72968,72969>>,<<72971,73014>>,<<73018,73018>>,<<73020,73021>>,
        <<73023,73031>>,<<73040,73049>>,<<73056,73061>>,<<73063,73064>>,
        <<73066,73102>>,<<73104,73105>>,<<73107,73112>>,<<73120,73129>>,
        <<73440,73462>>,<<73472,73488>>,<<73490,73530>>,<<73534,73538>>,
        <<73552,73562>>,<<73648,73648>>,<<73728,74649>>,<<74752,74862>>,
        <<74880,75075>>,<<77712,77808>>,<<77824,78895>>,<<78912,78933>>,
        <<78944,82938>>,<<82944,83526>>,<<90368,90425>>,<<92160,92728>>,
        <<92736,92766>>,<<92768,92777>>,<<92784,92862>>,<<92864,92873>>,
        <<92880,92909>>,<<92912,92916>>,<<92928,92982>>,<<92992,92995>>,
        <<93008,93017>>,<<93027,93047>>,<<93053,93071>>,<<93504,93548>>,
        <<93552,93561>>,<<93760,93823>>,<<93952,94026>>,<<94031,94087>>,
        <<94095,94111>>,<<94176,94177>>,<<94179,94180>>,<<94192,94193>>,
        <<94208,100343>>,<<100352,101589>>,<<101631,101640>>,<<110576,110579>>,
        <<110581,110587>>,<<110589,110590>>,<<110592,110882>>,<<110898,110898>>,
        <<110928,110930>>,<<110933,110933>>,<<110948,110951>>,<<110960,111355>>,
        <<113664,113770>>,<<113776,113788>>,<<113792,113800>>,<<113808,113817>>,
        <<113821,113822>>,<<118000,118009>>,<<118528,118573>>,<<118576,118598>>,
        <<119141,119145>>,<<119149,119154>>,<<119163,119170>>,<<119173,119179>>,
        <<119210,119213>>,<<119362,119364>>,<<119808,119892>>,<<119894,119964>>,
        <<119966,119967>>,<<119970,119970>>,<<119973,119974>>,<<119977,119980>>,
        <<119982,119993>>,<<119995,119995>>,<<119997,120003>>,<<120005,120069>>,
        <<120071,120074>>,<<120077,120084>>,<<120086,120092>>,<<120094,120121>>,
        <<120123,120126>>,<<120128,120132>>,<<120134,120134>>,<<120138,120144>>,
        <<120146,120485>>,<<120488,120512>>,<<120514,120538>>,<<120540,120570>>,
        <<120572,120596>>,<<120598,120628>>,<<120630,120654>>,<<120656,120686>>,
        <<120688,120712>>,<<120714,120744>>,<<120746,120770>>,<<120772,120779>>,
        <<120782,120831>>,<<121344,121398>>,<<121403,121452>>,<<121461,121461>>,
        <<121476,121476>>,<<121499,121503>>,<<121505,121519>>,<<122624,122654>>,
        <<122661,122666>>,<<122880,122886>>,<<122888,122904>>,<<122907,122913>>,
        <<122915,122916>>,<<122918,122922>>,<<122928,122989>>,<<123023,123023>>,
        <<123136,123180>>,<<123184,123197>>,<<123200,123209>>,<<123214,123214>>,
        <<123536,123566>>,<<123584,123641>>,<<124112,124153>>,<<124368,124410>>,
        <<124896,124902>>,<<124904,124907>>,<<124909,124910>>,<<124912,124926>>,
        <<124928,125124>>,<<125136,125142>>,<<125184,125259>>,<<125264,125273>>,
        <<126464,126467>>,<<126469,126495>>,<<126497,126498>>,<<126500,126500>>,
        <<126503,126503>>,<<126505,126514>>,<<126516,126519>>,<<126521,126521>>,
        <<126523,126523>>,<<126530,126530>>,<<126535,126535>>,<<126537,126537>>,
        <<126539,126539>>,<<126541,126543>>,<<126545,126546>>,<<126548,126548>>,
        <<126551,126551>>,<<126553,126553>>,<<126555,126555>>,<<126557,126557>>,
        <<126559,126559>>,<<126561,126562>>,<<126564,126564>>,<<126567,126570>>,
        <<126572,126578>>,<<126580,126583>>,<<126585,126588>>,<<126590,126590>>,
        <<126592,126601>>,<<126603,126619>>,<<126625,126627>>,<<126629,126633>>,
        <<126635,126651>>,<<127280,127305>>,<<127312,127337>>,<<127344,127369>>,
        <<130032,130041>>,<<131072,173791>>,<<173824,177977>>,<<177984,178205>>,
        <<178208,183969>>,<<183984,191456>>,<<191472,192093>>,<<194560,195101>>,
        <<196608,201546>>,<<201552,205743>>,<<917760,917999>> >>

\* c is a character written by its code point.
IsScalar(c) == c \notin {LF, NonUtf8} /\ Len(c) > 4 /\ SubSeq(c, 1, 3) = "<U+"

\* \w
IsWordChar(c) ==
    \/ c \in WordChars
    \/ /\ IsScalar(c)
       /\ \E n \in {Ord(c)} :
            \E i \in DOMAIN WordRanges : WordRanges[i][1] <= n /\ n <= WordRanges[i][2]

\* \w+ over the whole of s
IsWord(s) == s # << >> /\ \A i \in DOMAIN s : IsWordChar(s[i])

\* The validator with a stem of any characters but a line feed, ^.+\.\w+$
\* (the one of attachment.rs:125, a file lib.rs does not declare as a module).
is_file_name_valid_anystem(att_data) ==
    LET n == att_data.file_name IN
    \E i \in DOMAIN n :
        /\ n[i] = "."
        /\ i > 1
        /\ \A j \in 1..(i - 1) : n[j] # LF
        /\ IsWord(SubSeq(n, i + 1, Len(n)))

\* page.rs:125 AttachmentData::is_file_name_valid: ^\w+\.\w+$
is_file_name_valid(att_data) ==
    LET n == att_data.file_name IN
    \E i \in DOMAIN n :
        /\ n[i] = "."
        /\ IsWord(SubSeq(n, 1, i - 1))
        /\ IsWord(SubSeq(n, i + 1, Len(n)))

MkWeb(name, path) == [name |-> name, path |-> path]

\* web.rs:186 Webs::get_web
Webs_get_web(f, name) ==
    LET path == PathPush(WebsPath, name) IN
    IF PathIsDir(f, path) THEN [some |-> TRUE, web |-> MkWeb(name, path)]
    ELSE [some |-> FALSE, web |-> MkWeb(name, path)]

\* Webs::create_web without the test of web.rs:219.
Webs_create_web_nocheck(f, name) ==
    LET path == PathPush(WebsPath, name) IN
    LET dir == FsCreateDir(f, path) IN
    IF ~dir.ok THEN [ok |-> FALSE, err |-> IoErrorKind(dir.err), fs |-> f]
    ELSE [ok |-> TRUE, err |-> "", fs |-> dir.fs]

\* web.rs:216 Webs::create_web
Webs_create_web(f, name) ==
    LET path == PathPush(WebsPath, name) IN
    IF PathExists(f, path) THEN [ok |-> FALSE, err |-> "OverwriteError", fs |-> f]
    ELSE LET dir == FsCreateDir(f, path) IN
         IF ~dir.ok THEN [ok |-> FALSE, err |-> IoErrorKind(dir.err), fs |-> f]
         ELSE [ok |-> TRUE, err |-> "", fs |-> dir.fs]

\* web.rs:142 Web::create_page: unless something exists at web_dir/name, the
\* page {name, content} is written there, to a regular file.
Web_create_page(f, web, page) ==
    LET path == PathPush(web.path, page.name) IN
    IF PathExists(f, path) THEN [ok |-> FALSE, err |-> "OverwriteError", fs |-> f]
    ELSE LET file == FsWriteFile(f, path, SerializePage(page)) IN
         IF ~file.ok THEN [ok |-> FALSE, err |-> IoErrorKind(file.err), fs |-> f]
         ELSE [ok |-> TRUE, err |-> "", fs |-> file.fs]

\* web.rs:155 Web::update_page: when something exists at web_dir/name, the
\* page {name, content} is written there.
Web_update_page(f, web, page) ==
    LET path == PathPush(web.path, page.name) IN
    IF ~PathExists(f, path) THEN [ok |-> FALSE, err |-> "NotFound", fs |-> f]
    ELSE LET file == FsWriteFile(f, path, SerializePage(page)) IN
         IF ~file.ok THEN [ok |-> FALSE, err |-> IoErrorKind(file.err), fs |-> f]
         ELSE [ok |-> TRUE, err |-> "", fs |-> file.fs]

\* Web::get_page (called at lib.rs:116; its body is not among the sources):
\* opens the page directory of that name under the web's directory.
Web_get_page(f, web, name) == Page_open(f, PathPush(web.path, name))

\* Web::new_page (called at lib.rs:147; its body is not among the sources):
\* a Page bound to web_dir/detail.name, nothing is written.
Web_new_page(web, detail) == MkPage(PathPush(web.path, detail.name), detail)

----------------------------------------------------------------------------
(* The router: router.rs.                                                  *)

Lit(chars) == [t |-> "lit", s |-> chars]
Cap(name) == [t |-> "cap", s |-> name]

\* router.rs:11 ParamPath::new: the regex as a sequence of items, a literal
\* text or a named group (?P<name>[^/]+), anchored at both ends, and the
\* declared names.  (The literal parts of the patterns compiled by the router
\* hold no regex metacharacter.)
RECURSIVE ParamPath_parts(_)
ParamPath_parts(parts) ==
    IF parts = << >> THEN [names |-> << >>, re |-> << >>]
    ELSE LET part == Head(parts)
             rest == ParamPath_parts(Tail(parts))
         IN  IF part # << >> /\ part[1] = ":"
             THEN [names |-> <<Tail(part)>> \o rest.names,
                   re |-> <<Lit(<<SLASH>>), Cap(Tail(part))>> \o rest.re]
             ELSE [names |-> rest.names,
                   re |-> <<Lit(<<SLASH>>), Lit(part)>> \o rest.re]

ParamPath_new(pattern) == ParamPath_parts(Skip(Split(pattern, SLASH), 1))

HasPrefixAt(s, pos, lit) ==
    /\ pos + Len(lit) - 1 <= Len(s)
    /\ \A i \in 1..Len(lit) : s[pos + i - 1] = lit[i]

\* The length of the longest run of characters other than '/' of s from pos.
RunLen(s, pos) ==
    IF \E i \in pos..Len(s) : s[i] = SLASH
    THEN (CHOOSE i \in pos..Len(s) : s[i] = SLASH /\ \A j \in pos..(i - 1) : s[j] # SLASH) - pos
    ELSE Len(s) - pos + 1

Max(S) == CHOOSE x \in S : \A y \in S : y <= x

\* RegexMatch of an expression without the closing $: text may follow the
\* last item.
RECURSIVE RegexMatch_prefix(_, _, _, _)
RegexMatch_prefix(re, k, s, pos) ==
    IF k > Len(re) THEN [ok |-> TRUE, caps |-> << >>]
    ELSE IF re[k].t = "lit" THEN
        IF HasPrefixAt(s, pos, re[k].s)
        THEN RegexMatch_prefix(re, k + 1, s, pos + Len(re[k].s))
        ELSE [ok |-> FALSE, caps |-> << >>]
    ELSE LET good == {n \in 1..RunLen(s, pos) : RegexMatch_prefix(re, k + 1, s, pos + n).ok} IN
         IF good = {} THEN [ok |-> FALSE, caps |-> << >>]
         ELSE LET n == Max(good)
                  rest == RegexMatch_prefix(re, k + 1, s, pos + n)
              IN  [ok |-> TRUE,
                   caps |-> << <<re[k].s, SubSeq(s, pos, pos + n - 1)>> >> \o rest.caps]

\* RegexMatch with groups written (?P<name>.+): a group may run over slashes.
RECURSIVE RegexMatch_dotplus(_, _, _, _)
RegexMatch_dotplus(re, k, s, pos) ==
    IF k > Len(re) THEN [ok |-> pos = Len(s) + 1, caps |-> << >>]
    ELSE IF re[k].t = "lit" THEN
        IF HasPrefixAt(s, pos, re[k].s)
        THEN RegexMatch_dotplus(re, k + 1, s, pos + Len(re[k].s))
        ELSE [ok |-> FALSE, caps |-> << >>]
    ELSE LET good == {n \in 1..(Len(s) - pos + 1) :
                        RegexMatch_dotplus(re, k + 1, s, pos + n).ok} IN
         IF good = {} THEN [ok |-> FALSE, caps |-> << >>]
         ELSE LET n == Max(good)
                  rest == RegexMatch_dotplus(re, k + 1, s, pos + n)
              IN  [ok |-> TRUE,
                   caps |-> << <<re[k].s, SubSeq(s, pos, pos + n - 1)>> >> \o rest.caps]

\* Regex::captures of the anchored expression: items k.. of re against s from
\* pos to the end of s; a group takes the longest run that lets the rest match.
RECURSIVE RegexMatch(_, _, _, _)
RegexMatch(re, k, s, pos) ==
    IF k > Len(re) THEN [ok |-> pos = Len(s) + 1, caps |-> << >>]
    ELSE IF re[k].t = "lit" THEN
        IF HasPrefixAt(s, pos, re[k].s)
        THEN RegexMatch(re, k + 1, s, pos + Len(re[k].s))
        ELSE [ok |-> FALSE, caps |-> << >>]
    ELSE LET good == {n \in 1..RunLen(s, pos) : RegexMatch(re, k + 1, s, pos + n).ok} IN
         IF good = {} THEN [ok |-> FALSE, caps |-> << >>]
         ELSE LET n == Max(good)
                  rest == RegexMatch(re, k + 1, s, pos + n)
              IN  [ok |-> TRUE,
                   caps |-> << <<re[k].s, SubSeq(s, pos, pos + n - 1)>> >> \o rest.caps]

\* Captures::name
CapsName(caps, name) ==
    IF \E i \in DOMAIN caps : caps[i][1] = name
    THEN [some |-> TRUE, v |-> caps[CHOOSE i \in DOMAIN caps : caps[i][1] = name][2]]
    ELSE [some |-> FALSE, v |-> << >>]

SeqRange(q) == {q[i] : i \in DOMAIN q}

\* router.rs:39 ParamPath::test: the map from each declared name to the text
\* of its group, None unless the map has as many entries as declared names.
ParamPath_test(pp, path) ==
    LET m == RegexMatch(pp.re, 1, path, 1) IN
    IF ~m.ok THEN [some |-> FALSE, map |-> << >>]
    ELSE LET keys == {n \in SeqRange(pp.names) : CapsName(m.caps, n).some}
             map == [n \in keys |-> CapsName(m.caps, n).v]
         IN  IF Cardinality(DOMAIN map) = Len(pp.names)
             THEN [some |-> TRUE, map |-> map]
             ELSE [some |-> FALSE, map |-> << >>]

N_web_name == <<"w","e","b","_","n","a","m","e">>
N_page_name == <<"p","a","g","e","_","n","a","m","e">>
N_attachment_name == <<"a","t","t","a","c","h","m","e","n","t","_","n","a","m","e">>
N_version_hash == <<"v","e","r","s","i","o","n","_","h","a","s","h">>

\* The pattern strings of router.rs:77-84.
WEBS_PATTERN == <<SLASH>> \o S_webs
PAGES_PATTERN == WEBS_PATTERN \o <<SLASH, ":">> \o N_web_name \o <<SLASH>> \o S_pages
PAGE_PATTERN == PAGES_PATTERN \o <<SLASH, ":">> \o N_page_name
ATTACHMENTS_PATTERN == PAGE_PATTERN \o <<SLASH>> \o S_attachments
ATTACHMENT_PATTERN == ATTACHMENTS_PATTERN \o <<SLASH, ":">> \o N_attachment_name
VERSIONS_PATTERN == PAGE_PATTERN \o <<SLASH>> \o S_versions
VERSION_PATTERN == VERSIONS_PATTERN \o <<SLASH, ":">> \o N_version_hash

\* router.rs:77-84: the patterns compiled once (lazy_static).
WEBS_PATH == ParamPath_new(WEBS_PATTERN)
PAGES_PATH == ParamPath_new(PAGES_PATTERN)
PAGE_PATH == ParamPath_new(PAGE_PATTERN)
ATTACHMENTS_PATH == ParamPath_new(ATTACHMENTS_PATTERN)
ATTACHMENT_PATH == ParamPath_new(ATTACHMENT_PATTERN)
VERSIONS_PATH == ParamPath_new(VERSIONS_PATTERN)
VERSION_PATH == ParamPath_new(VERSION_PATTERN)

MkRoute(kind, map) ==
    LET get(n) == IF n \in DOMAIN map THEN map[n] ELSE << >> IN
    [route |-> kind,
     web_name |-> get(N_web_name),
     page_name |-> get(N_page_name),
     attachment_name |-> get(N_attachment_name),
     version_hash |-> get(N_version_hash)]

Invalid == MkRoute("Invalid", << >>)

\* router.rs:88-125 the rules tried for GET, in order
RouteGet(path) ==
    LET webs == ParamPath_test(WEBS_PATH, path)
        pages == ParamPath_test(PAGES_PATH, path)
        page == ParamPath_test(PAGE_PATH, path)
        attachments == ParamPath_test(ATTACHMENTS_PATH, path)
        attachment == ParamPath_test(ATTACHMENT_PATH, path)
        versions == ParamPath_test(VERSIONS_PATH, path)
        version == ParamPath_test(VERSION_PATH, path)
    IN  IF webs.some THEN MkRoute("ListWebs", << >>)
        ELSE IF pages.some THEN MkRoute("ListPages", pages.map)
        ELSE IF page.some THEN MkRoute("ShowPage", page.map)
        ELSE IF attachments.some THEN MkRoute("ListAttachments", attachments.map)
        ELSE IF attachment.some THEN MkRoute("ServeAttachment", attachment.map)
        ELSE IF versions.some THEN MkRoute("ListPageVersions", versions.map)
        ELSE IF version.some THEN MkRoute("ShowPageVersion", version.map)
        ELSE Invalid

\* router.rs:126-141 the rules tried for POST, in order
RoutePost(path) ==
    LET webs == ParamPath_test(WEBS_PATH, path)
        pages == ParamPath_test(PAGES_PATH, path)
        attachments == ParamPath_test(ATTACHMENTS_PATH, path)
    IN  IF webs.some THEN MkRoute("CreateWeb", << >>)
        ELSE IF pages.some THEN MkRoute("CreatePage", pages.map)
        ELSE IF attachments.some THEN MkRoute("CreateAttachment", attachments.map)
        ELSE Invalid

\* router.rs:142-152 the rule tried for PUT
RoutePut(path) ==
    LET page == ParamPath_test(PAGE_PATH, path) IN
    IF page.some THEN MkRoute("UpdatePage", page.map) ELSE Invalid

\* Route::from with the arm of POST also taken for DELETE.
Route_from_delete(method, path) ==
    IF method = "GET" THEN RouteGet(path)
    ELSE IF method \in {"POST", "DELETE"} THEN RoutePost(path)
    ELSE IF method = "PUT" THEN RoutePut(path)
    ELSE Invalid

\* router.rs:74 impl From<&Request> for Route
Route_from(method, path) ==
    IF method = "GET" THEN RouteGet(path)
    ELSE IF method = "POST" THEN RoutePost(path)
    ELSE IF method = "PUT" THEN RoutePut(path)
    ELSE Invalid

----------------------------------------------------------------------------
(* Listings.                                                               *)

\* fs::read_dir: the canonical paths of the entries of a directory.
FsReadDir(f, path) ==
    LET r == Resolve(f, path) IN
    IF ~r.ok THEN [ok |-> FALSE, err |-> r.err, entries |-> {}]
    ELSE IF r.p \notin DOMAIN f THEN [ok |-> FALSE, err |-> "NotFound", entries |-> {}]
    ELSE IF f[r.p].kind # "dir" THEN [ok |-> FALSE, err |-> "NotADirectory", entries |-> {}]
    ELSE [ok |-> TRUE, err |-> "",
          entries |-> {q \in DOMAIN f : Len(q) = Len(r.p) + 1 /\ Parent(q) = r.p}]

\* Path::to_str of entry.path(), the path the directory was read by joined
\* with the name of the entry: Some when every component of that path as it
\* is spelled is UTF-8.
PathIsUtf8(path) == \A i \in DOMAIN path : IsUtf8(path[i])

\* DirEntry::path of the entry e of the directory read by the path dir.
EntryPath(dir, e) == PathPush(dir, e[Len(e)])

\* web.rs:196 Webs::get_web_stubs: the names of the directories of the root
\* whose paths are UTF-8.
Webs_get_web_stubs(f) ==
    LET dir == FsReadDir(f, WebsPath) IN
    IF ~dir.ok THEN [ok |-> FALSE, err |-> IoErrorKind(dir.err), stubs |-> {}]
    ELSE [ok |-> TRUE, err |-> "",
          stubs |-> {q[Len(q)] : q \in {e \in dir.entries :
                                            IsDirAt(f, e) /\ PathIsUtf8(EntryPath(WebsPath, e))}}]

\* web.rs:113 Web::get_page_stubs: the names of the entries of the web's
\* directory that pass the filter path.is_file() and whose paths are UTF-8.
Web_get_page_stubs(f, web) ==
    LET dir == FsReadDir(f, web.path) IN
    IF ~dir.ok THEN [ok |-> FALSE, err |-> IoErrorKind(dir.err), stubs |-> {}]
    ELSE [ok |-> TRUE, err |-> "",
          stubs |-> {q[Len(q)] : q \in {e \in dir.entries :
                                            IsFileAt(f, e) /\ PathIsUtf8(EntryPath(web.path, e))}}]

\* Web::list_pages, which lib.rs:97 calls and no source file defines: the
\* immediate subdirectories of the web's directory (spec 4.3), their names
\* given as the listings of the sources give names (a stub holds a String).
Web_list_pages(f, web) ==
    LET dir == FsReadDir(f, web.path) IN
    IF ~dir.ok THEN [ok |-> FALSE, err |-> IoErrorKind(dir.err), stubs |-> {}]
    ELSE [ok |-> TRUE, err |-> "",
          stubs |-> {q[Len(q)] : q \in {e \in dir.entries :
                                            IsDirAt(f, e) /\ PathIsUtf8(EntryPath(web.path, e))}}]

\* page.rs:272 Page::list_attachments: read_dir of the attachments directory,
\* an error when it cannot be read, else the names of its regular files whose
\* paths are UTF-8.
Page_list_attachments(f, page) ==
    LET path == PathPush(page.path, ATTACHMENTS_DIRECTORY)
        dir == FsReadDir(f, path)
    IN
    IF ~dir.ok THEN [ok |-> FALSE, err |-> IoErrorKind(dir.err), stubs |-> {}]
    ELSE [ok |-> TRUE, err |-> "",
          stubs |-> {q[Len(q)] : q \in {e \in dir.entries :
                                            IsFileAt(f, e) /\ PathIsUtf8(EntryPath(path, e))}}]

----------------------------------------------------------------------------
(* Bounds and inputs.                                                      *)

\* Requests handled at once, and requests over a run.
MaxReq == 2
MaxRequests == 2

Req == 1..MaxReq

NA == <<"a">>
NB == <<"b">>
N_ab == <<"a", SLASH, "b">>
N_bslash == <<"b", SLASH>>
N_bdot == <<"b", SLASH, ".">>
T_t == <<"t">>
C_x == <<"x">>
C_y == <<"y">>
F_fp == <<"f", ".", "p">>
F_noext == <<"f", "p">>

Detail(n, t, c) == [name |-> n, title |-> t, content |-> c]

\* The names a request body may carry for a page, and the page contents.
BodyPageNames == {NA, NB, N_ab}
Contents == {C_x, C_y}
Details == {Detail(n, T_t, c) : n \in BodyPageNames, c \in Contents}

\* The byte strings a client uploads: two that are no text, and one that
\* spells a JSON array, ["a","t","y"].
PayloadJson == <<91, 34, 97, 34, 44, 34, 116, 34, 44, 34, 121, 34, 93>>
Payloads == {<<1>>, <<2, 255>>, PayloadJson}

DetailBody(d) == DetailJson(d)
WebBody(n) == Json(<< <<"name", n>> >>)
WebPageBody(n, c) == Json(<< <<"name", n>>, <<"content", c>> >>)
AttachmentBody(n, e) == Json(<< <<"file_name", n>>, <<"encoded_data", e>> >>)
Malformed == Bytes(<<123>>)

\* A payload of the base64 alphabet whose last character has bits set that
\* belong to no byte ("AQ==" with the second character changed).
E_AR == <<"A", "R", "=", "=">>

\* Request bodies: page details, as a JSON object and as a JSON array; a web
\* stub {name}, a name with a content as a JSON array and as a JSON object
\* whose name ends in "/" or "/."; attachments with the payloads, with two
\* ill formed payloads, and one whose file name has no dot; bytes that are
\* no JSON.
Bodies ==
    {DetailBody(d) : d \in Details}
    \cup {Array(<<NA, T_t, C_x>>), Array(<<NB, C_x>>)}
    \cup {WebBody(NB)}
    \cup {WebPageBody(n, C_x) : n \in {N_bslash, N_bdot}}
    \cup {AttachmentBody(F_fp, base64_encode(b)) : b \in Payloads}
    \cup {AttachmentBody(F_fp, <<"!", "A", "A", "A">>), AttachmentBody(F_fp, E_AR)}
    \cup {AttachmentBody(F_noext, base64_encode(<<1>>))}
    \cup {Malformed}

Methods == {"GET", "POST", "PUT", "DELETE", "OPTIONS"}

Seg(x) == <<SLASH>> \o x

\* The request paths: the REST table over webs a, b and pages a, b, and a
\* path of no rule.
UrlWebs == {NA, NB}
UrlPages == {NA, NB}
RequestPaths ==
    {Seg(S_webs)}
    \cup {Seg(S_webs) \o Seg(w) : w \in UrlWebs}
    \cup {Seg(S_webs) \o Seg(w) \o Seg(S_pages) : w \in UrlWebs}
    \cup {Seg(S_webs) \o Seg(w) \o Seg(S_pages) \o Seg(q) : w \in UrlWebs, q \in UrlPages}
    \cup {Seg(S_webs) \o Seg(w) \o Seg(S_pages) \o Seg(q) \o Seg(S_attachments) :
            w \in UrlWebs, q \in UrlPages}
    \cup {Seg(S_webs) \o Seg(w) \o Seg(S_pages) \o Seg(q) \o Seg(S_attachments) \o Seg(F_fp) :
            w \in UrlWebs, q \in UrlPages}

\* What arrives: lib.rs:39 tells an OPTIONS request apart, lib.rs:51 routes
\* every other request.  (The slots of Req are interchangeable: a request takes
\* the first free one.)
Arrivals ==
    {[options |-> m = "OPTIONS", route |-> IF m = "OPTIONS" THEN Invalid ELSE Route_from(m, q)] :
        m \in Methods, q \in RequestPaths}

----------------------------------------------------------------------------
(* The request handlers: lib.rs BioWiki::call.  A handler runs in steps:   *)
(* Call classifies the request and, for the routes that lock in call(),    *)
(* takes the mutex; Handle runs the store operations of call() and drops   *)
(* the guard as call() returns; Body runs the closure given to             *)
(* request.body().concat2().map(..) once the body has arrived.             *)

NoWeb == MkWeb(<< >>, << >>)
NoPage == MkPage(<< >>, NoDetail)
NoOp == [req |-> 0, op |-> "none", path |-> << >>, ok |-> TRUE, err |-> "", locked |-> FALSE]
\* A closure that answers without a store operation, and why.
Rejected(r, why) ==
    [req |-> r, op |-> "none", path |-> << >>, ok |-> FALSE, err |-> why, locked |-> FALSE]

IdleReq == [pc |-> "idle", route |-> Invalid, web |-> NoWeb, page |-> NoPage,
            stub |-> << >>, status |-> 0, body |-> NoBody]

\* The record of a store operation: who ran it, on what, how it ended, and
\* whether that request held the mutex while it ran.
Op(r, op, path, res) ==
    [req |-> r, op |-> op, path |-> path, ok |-> res.ok, err |-> res.err,
     locked |-> (lock = r)]

Done(q, status, body) ==
    [q EXCEPT !.pc = "done", !.status = status, !.body = body,
              !.web = NoWeb, !.page = NoPage, !.stub = << >>]

\* The status for an Err of the store (lib.rs: one arm per error kind).
StatusOf(err, notFound, client) ==
    IF err = "NotFound" /\ notFound THEN 404
    ELSE IF err \in client THEN 400
    ELSE 500

LockingRoutes ==
    {"ListWebs", "ListPages", "ShowPage", "CreatePage", "UpdatePage",
     "ListAttachments", "CreateAttachment", "ServeAttachment"}

\* The details written so far to a page directory, and the latest of them.
NoHist == [written |-> {}, last |-> NoDetail, creates |-> 0]
HistOf(h, path) == IF path \in DOMAIN h THEN h[path] ELSE NoHist
Record(h, path, d, created) ==
    Put(h, path, [written |-> HistOf(h, path).written \cup {d},
                  last |-> d,
                  creates |-> HistOf(h, path).creates + (IF created THEN 1 ELSE 0)])

\* lib.rs:35-52: a request arrives; OPTIONS is answered at once, an Invalid
\* route is answered 404, CreateWeb waits for its body, every other route
\* locks the mutex.
Call(r) ==
    /\ reqs[r].pc \in {"idle", "done"}
    /\ \A q \in Req : q < r => reqs[q].pc \notin {"idle", "done"}
    /\ nreq < MaxRequests
    /\ nreq' = nreq + 1
    /\ \E a \in Arrivals :
        IF a.options THEN
            /\ reqs' = [reqs EXCEPT ![r] = Done(IdleReq, 200, NoBody)]
            /\ lastOp' = NoOp
            /\ UNCHANGED lock
        ELSE IF a.route.route = "Invalid" THEN
            /\ reqs' = [reqs EXCEPT ![r] = Done(IdleReq, 404, NoBody)]
            /\ lastOp' = Rejected(r, "InvalidRoute")
            /\ UNCHANGED lock
        ELSE IF a.route.route = "CreateWeb" THEN
            /\ reqs' = [reqs EXCEPT ![r] = [IdleReq EXCEPT !.route = a.route, !.pc = "body"]]
            /\ lastOp' = NoOp
            /\ UNCHANGED lock
        ELSE
            /\ a.route.route \in LockingRoutes
            /\ lock = 0
            /\ lock' = r
            /\ reqs' = [reqs EXCEPT ![r] = [IdleReq EXCEPT !.route = a.route, !.pc = "locked"]]
            /\ lastOp' = NoOp
    /\ UNCHANGED <<fs, hist, saved, rpath>>

\* The mutex guard taken in call() is dropped when call() returns.
Unlock == lock' = 0

Quiet == UNCHANGED <<fs, hist, saved, nreq, rpath>>

Locked(r, kind) == reqs[r].pc = "locked" /\ reqs[r].route.route = kind

\* lib.rs:53-64 Route::ListWebs
HandleListWebs(r) ==
    /\ Locked(r, "ListWebs")
    /\ LET res == Webs_get_web_stubs(fs) IN
        /\ reqs' = [reqs EXCEPT ![r] =
                IF res.ok THEN Done(@, 200, List(res.stubs))
                ELSE Done(@, 500, NoBody)]
        /\ lastOp' = Op(r, "Webs.list_webs", WebsPath, res)
    /\ Unlock
    /\ Quiet

\* lib.rs:88-106 Route::ListPages
HandleListPages(r) ==
    /\ Locked(r, "ListPages")
    /\ LET web == Webs_get_web(fs, reqs[r].route.web_name)
           res == Web_list_pages(fs, web.web)
       IN
        /\ reqs' = [reqs EXCEPT ![r] =
                IF ~web.some THEN Done(@, 404, NoBody)
                ELSE IF res.ok THEN Done(@, 200, List(res.stubs))
                ELSE Done(@, 500, NoBody)]
        /\ lastOp' = IF ~web.some
                     THEN Op(r, "Webs.get_web", web.web.path, [ok |-> FALSE, err |-> "None"])
                     ELSE Op(r, "Web.list_pages", web.web.path, res)
    /\ Unlock
    /\ Quiet

\* lib.rs:107-128 Route::ShowPage
HandleShowPage(r) ==
    /\ Locked(r, "ShowPage")
    /\ \E web \in {Webs_get_web(fs, reqs[r].route.web_name)} :
       \E res \in {Web_get_page(fs, web.web, reqs[r].route.page_name)} :
        /\ reqs' = [reqs EXCEPT ![r] =
                IF ~web.some THEN Done(@, 404, NoBody)
                ELSE IF res.ok THEN Done(@, 200, DetailJson(res.page.detail))
                ELSE Done(@, StatusOf(res.err, TRUE, {}), NoBody)]
        /\ lastOp' = IF ~web.some
                     THEN Op(r, "Webs.get_web", web.web.path, [ok |-> FALSE, err |-> "None"])
                     ELSE Op(r, "Page.open", PathPush(web.web.path, reqs[r].route.page_name), res)
    /\ Unlock
    /\ Quiet

\* Route::CreatePage with the guard moved into the closure: the mutex stays
\* locked while the request waits for its body.
HandleCreatePage_held(r) ==
    /\ Locked(r, "CreatePage")
    /\ LET web == Webs_get_web(fs, reqs[r].route.web_name) IN
        /\ reqs' = [reqs EXCEPT ![r] =
                IF ~web.some THEN Done(@, 404, NoBody)
                ELSE [@ EXCEPT !.pc = "body", !.web = web.web]]
        /\ lastOp' = Op(r, "Webs.get_web", web.web.path,
                        [ok |-> web.some, err |-> IF web.some THEN "" ELSE "None"])
        /\ lock' = IF web.some THEN lock ELSE 0
    /\ Quiet

\* lib.rs:129-137 Route::CreatePage, up to the wait for the body
HandleCreatePage(r) ==
    /\ Locked(r, "CreatePage")
    /\ LET web == Webs_get_web(fs, reqs[r].route.web_name) IN
        /\ reqs' = [reqs EXCEPT ![r] =
                IF ~web.some THEN Done(@, 404, NoBody)
                ELSE [@ EXCEPT !.pc = "body", !.web = web.web]]
        /\ lastOp' = Op(r, "Webs.get_web", web.web.path,
                        [ok |-> web.some, err |-> IF web.some THEN "" ELSE "None"])
    /\ Unlock
    /\ Quiet

\* lib.rs:161-176, 207-222, 236-251, 280-295: the web and the page of a route.
\* (The web and the page are each looked up once, then tested.)
ResolvePage(f, route) ==
    CHOOSE res \in
        {IF ~web.some THEN [ok |-> FALSE, err |-> "None", status |-> 404, page |-> NoPage]
         ELSE IF ~page.ok
              THEN [ok |-> FALSE, err |-> page.err, page |-> NoPage,
                    status |-> IF page.err = "NotFound" THEN 404 ELSE 500]
         ELSE [ok |-> TRUE, err |-> "", status |-> 200, page |-> page.page] :
            <<web, page>> \in
                {<<w, Web_get_page(f, w.web, route.page_name)>> :
                    w \in {Webs_get_web(f, route.web_name)}}} : TRUE

PagePathOf(route) == PathPush(PathPush(WebsPath, route.web_name), route.page_name)

\* lib.rs:160-178 Route::UpdatePage and lib.rs:235-253 Route::CreateAttachment,
\* up to the wait for the body
HandleWithBody(r) ==
    /\ reqs[r].pc = "locked"
    /\ reqs[r].route.route \in {"UpdatePage", "CreateAttachment"}
    /\ \E res \in {ResolvePage(fs, reqs[r].route)} :
        /\ reqs' = [reqs EXCEPT ![r] =
                IF ~res.ok THEN Done(@, res.status, NoBody)
                ELSE [@ EXCEPT !.pc = "body", !.page = res.page]]
        /\ lastOp' = Op(r, "Page.open", PagePathOf(reqs[r].route), res)
    /\ Unlock
    /\ Quiet

\* lib.rs:206-234 Route::ListAttachments
HandleListAttachments(r) ==
    /\ Locked(r, "ListAttachments")
    /\ \E page \in {ResolvePage(fs, reqs[r].route)} :
       \E res \in {Page_list_attachments(fs, page.page)} :
        /\ reqs' = [reqs EXCEPT ![r] =
                IF ~page.ok THEN Done(@, page.status, NoBody)
                ELSE IF res.ok THEN Done(@, 200, List(res.stubs))
                ELSE Done(@, 500, NoBody)]
        /\ lastOp' = IF ~page.ok THEN Op(r, "Page.open", PagePathOf(reqs[r].route), page)
                     ELSE Op(r, "Page.list_attachments", page.page.path, res)
    /\ Unlock
    /\ Quiet

\* lib.rs:279-314 Route::ServeAttachment
HandleServeAttachment(r) ==
    /\ Locked(r, "ServeAttachment")
    /\ \E page \in {ResolvePage(fs, reqs[r].route)} :
       \E att \in {Page_get_attachment(fs, page.page, reqs[r].route.attachment_name)} :
       \E data \in {IF att.ok THEN Attachment_data(fs, att.att)
                    ELSE [ok |-> FALSE, err |-> att.err]} :
        /\ reqs' = [reqs EXCEPT ![r] =
                IF ~page.ok THEN Done(@, page.status, NoBody)
                ELSE IF ~att.ok THEN Done(@, StatusOf(att.err, TRUE, {}), NoBody)
                ELSE IF data.ok THEN Done(@, 200, data.data)
                ELSE Done(@, 500, NoBody)]
        /\ lastOp' = IF ~page.ok THEN Op(r, "Page.open", PagePathOf(reqs[r].route), page)
                     ELSE IF ~att.ok THEN Op(r, "Page.get_attachment", page.page.path, att)
                     ELSE Op(r, "Attachment.data", att.att.path, data)
    /\ Unlock
    /\ Quiet

\* lib.rs:76-85: create_web under the guard taken inside the closure
HandleCreateWeb(r) ==
    /\ Locked(r, "CreateWeb")
    /\ LET res == Webs_create_web(fs, reqs[r].stub) IN
        /\ fs' = res.fs
        /\ reqs' = [reqs EXCEPT ![r] =
                IF res.ok THEN Done(@, 200, NoBody)
                ELSE Done(@, StatusOf(res.err, FALSE, {"OverwriteError"}), NoBody)]
        /\ lastOp' = Op(r, "Webs.create_web", PathPush(WebsPath, reqs[r].stub), res)
    /\ Unlock
    /\ UNCHANGED <<hist, saved, nreq, rpath>>

Waiting(r, kind) == reqs[r].pc = "body" /\ reqs[r].route.route = kind

\* lib.rs:67-76 Route::CreateWeb: the closure parses the body, then locks.
BodyCreateWebOn(r, body) ==
    /\ Waiting(r, "CreateWeb")
    /\ LET stub == WebStub_parse(body) IN
        IF ~stub.ok THEN
            /\ reqs' = [reqs EXCEPT ![r] = Done(@, 400, NoBody)]
            /\ lastOp' = Rejected(r, "BadBody")
            /\ UNCHANGED lock
        ELSE
            /\ lock = 0
            /\ lock' = r
            /\ reqs' = [reqs EXCEPT ![r] = [@ EXCEPT !.pc = "locked", !.stub = stub.v.name]]
            /\ lastOp' = NoOp
    /\ Quiet

BodyCreateWeb(r) == \E body \in Bodies : BodyCreateWebOn(r, body)

\* lib.rs:138-158 Route::CreatePage: the closure run on the body
BodyCreatePageOn(r, body) ==
    /\ Waiting(r, "CreatePage")
    /\ LET page_detail == PageDetail_parse(body) IN
        IF ~page_detail.ok THEN
            /\ reqs' = [reqs EXCEPT ![r] = Done(@, 400, NoBody)]
            /\ lastOp' = Rejected(r, "BadBody")
            /\ UNCHANGED <<fs, hist>>
        ELSE
            LET page == Web_new_page(reqs[r].web, page_detail.v)
                res == Page_create(fs, page)
            IN  /\ fs' = res.fs
                /\ hist' = IF res.ok THEN Record(hist, page.path, page.detail, TRUE) ELSE hist
                /\ reqs' = [reqs EXCEPT ![r] =
                        IF res.ok THEN Done(@, 200, NoBody)
                        ELSE Done(@, StatusOf(res.err, FALSE, {"OverwriteError"}), NoBody)]
                /\ lastOp' = Op(r, "Page.create", page.path, res)
    /\ UNCHANGED <<lock, saved, nreq, rpath>>

BodyCreatePage(r) == \E body \in Bodies : BodyCreatePageOn(r, body)

\* The closure of UpdatePage without the comparison of lib.rs:188.
BodyUpdatePageOn_nocheck(r, body) ==
    /\ Waiting(r, "UpdatePage")
    /\ LET detail == PageDetail_parse(body) IN
        IF ~detail.ok THEN
            /\ reqs' = [reqs EXCEPT ![r] = Done(@, 400, NoBody)]
            /\ lastOp' = Rejected(r, "BadBody")
            /\ UNCHANGED <<fs, hist>>
        ELSE
            LET page == [reqs[r].page EXCEPT !.detail = detail.v]
                res == Page_update(fs, page)
            IN  /\ fs' = res.fs
                /\ hist' = IF res.ok THEN Record(hist, page.path, page.detail, FALSE) ELSE hist
                /\ reqs' = [reqs EXCEPT ![r] =
                        IF res.ok THEN Done(@, 200, NoBody)
                        ELSE Done(@, StatusOf(res.err, TRUE, {}), NoBody)]
                /\ lastOp' = Op(r, "Page.update", page.path, res)
    /\ UNCHANGED <<lock, saved, nreq, rpath>>

\* lib.rs:179-204 Route::UpdatePage: the closure run on the body
BodyUpdatePageOn(r, body) ==
    /\ Waiting(r, "UpdatePage")
    /\ LET detail == PageDetail_parse(body) IN
        IF ~detail.ok THEN
            /\ reqs' = [reqs EXCEPT ![r] = Done(@, 400, NoBody)]
            /\ lastOp' = Rejected(r, "BadBody")
            /\ UNCHANGED <<fs, hist>>
        ELSE IF reqs[r].route.page_name # detail.v.name THEN
            /\ reqs' = [reqs EXCEPT ![r] = Done(@, 400, NoBody)]
            /\ lastOp' = Rejected(r, "PageNameDiffers")
            /\ UNCHANGED <<fs, hist>>
        ELSE
            LET page == [reqs[r].page EXCEPT !.detail = detail.v]
                res == Page_update(fs, page)
            IN  /\ fs' = res.fs
                /\ hist' = IF res.ok THEN Record(hist, page.path, page.detail, FALSE) ELSE hist
                /\ reqs' = [reqs EXCEPT ![r] =
                        IF res.ok THEN Done(@, 200, NoBody)
                        ELSE Done(@, StatusOf(res.err, TRUE, {}), NoBody)]
                /\ lastOp' = Op(r, "Page.update", page.path, res)
    /\ UNCHANGED <<lock, saved, nreq, rpath>>

BodyUpdatePage(r) == \E body \in Bodies : BodyUpdatePageOn(r, body)

\* The closure of CreateAttachment without the test of lib.rs:263.
BodyCreateAttachmentOn_nocheck(r, body) ==
    /\ Waiting(r, "CreateAttachment")
    /\ LET att_data == AttachmentData_parse(body) IN
        IF ~att_data.ok THEN
            /\ reqs' = [reqs EXCEPT ![r] = Done(@, 400, NoBody)]
            /\ lastOp' = Rejected(r, "BadBody")
            /\ UNCHANGED <<fs, saved>>
        ELSE
            LET res == Page_save_attachment(fs, reqs[r].page, att_data.v) IN
                /\ fs' = res.fs
                /\ saved' = IF res.ok
                            THEN Put(saved, <<reqs[r].page.path, att_data.v.file_name>>,
                                     att_data.v.encoded_data)
                            ELSE saved
                /\ reqs' = [reqs EXCEPT ![r] =
                        IF res.ok THEN Done(@, 200, NoBody)
                        ELSE Done(@, StatusOf(res.err, FALSE, {"Base64Error"}), NoBody)]
                /\ lastOp' = Op(r, "Page.save_attachment", reqs[r].page.path, res)
    /\ UNCHANGED <<lock, hist, nreq, rpath>>

\* lib.rs:254-277 Route::CreateAttachment: the closure run on the body
BodyCreateAttachmentOn(r, body) ==
    /\ Waiting(r, "CreateAttachment")
    /\ LET att_data == AttachmentData_parse(body) IN
        IF ~att_data.ok THEN
            /\ reqs' = [reqs EXCEPT ![r] = Done(@, 400, NoBody)]
            /\ lastOp' = Rejected(r, "BadBody")
            /\ UNCHANGED <<fs, saved>>
        ELSE IF ~is_file_name_valid(att_data.v) THEN
            /\ reqs' = [reqs EXCEPT ![r] = Done(@, 400, NoBody)]
            /\ lastOp' = Rejected(r, "BadFileName")
            /\ UNCHANGED <<fs, saved>>
        ELSE
            LET res == Page_save_attachment(fs, reqs[r].page, att_data.v) IN
                /\ fs' = res.fs
                /\ saved' = IF res.ok
                            THEN Put(saved, <<reqs[r].page.path, att_data.v.file_name>>,
                                     att_data.v.encoded_data)
                            ELSE saved
                /\ reqs' = [reqs EXCEPT ![r] =
                        IF res.ok THEN Done(@, 200, NoBody)
                        ELSE Done(@, StatusOf(res.err, FALSE, {"Base64Error"}), NoBody)]
                /\ lastOp' = Op(r, "Page.save_attachment", reqs[r].page.path, res)
    /\ UNCHANGED <<lock, hist, nreq, rpath>>

BodyCreateAttachment(r) == \E body \in Bodies : BodyCreateAttachmentOn(r, body)

----------------------------------------------------------------------------
(* The service.                                                            *)

D0 == Detail(NA, T_t, C_x)
PageA == <<RootName, NA, NA>>

\* The root directory as the service finds it.
EmptyRoot == (<< >> :> DirNode) @@ (WebsPath :> DirNode)

\* A directory of web a whose name is no UTF-8.
ForeignDir == <<RootName, NA, <<NonUtf8>>>>

\* A root left by an earlier run that created web a and, in it, page a, and
\* that also holds a regular file named b and, in web a, a directory that
\* something else put there: its name is no UTF-8, its detail file names x.
UsedRoot ==
    EmptyRoot @@ (<<RootName, NA>> :> DirNode) @@ (PageA :> DirNode)
    @@ (Append(PageA, PAGE_FILENAME) :> FileNode(SerializeDetail(D0)))
    @@ (<<RootName, NB>> :> FileNode(Bytes(<<1>>)))
    @@ (ForeignDir :> DirNode)
    @@ (Append(ForeignDir, PAGE_FILENAME) :> FileNode(SerializeDetail(Detail(C_x, T_t, C_x))))

Init ==
    /\ fs \in {EmptyRoot, UsedRoot}
    /\ hist = << >>
    /\ saved = << >>
    /\ lock = 0
    /\ reqs = [r \in Req |-> IdleReq]
    /\ lastOp = NoOp
    /\ nreq = 0
    /\ rpath = << >>

Next ==
    \E r \in Req :
        \/ Call(r)
        \/ HandleListWebs(r)
        \/ HandleListPages(r)
        \/ HandleShowPage(r)
        \/ HandleCreatePage(r)
        \/ HandleWithBody(r)
        \/ HandleListAttachments(r)
        \/ HandleServeAttachment(r)
        \/ HandleCreateWeb(r)
        \/ BodyCreateWeb(r)
        \/ BodyCreatePage(r)
        \/ BodyUpdatePage(r)
        \/ BodyCreateAttachment(r)

Spec == Init /\ [][Next]_vars

\* What the event loop owes an admitted request: the rest of call() runs once
\* call() has begun (Handle), and the closure given to concat2().map(..) runs
\* once the body has arrived, which every body does (Body).  Nothing obliges
\* a client to send a further request (Call).
Proceed(r) ==
    \/ HandleListWebs(r)
    \/ HandleListPages(r)
    \/ HandleShowPage(r)
    \/ HandleCreatePage(r)
    \/ HandleWithBody(r)
    \/ HandleListAttachments(r)
    \/ HandleServeAttachment(r)
    \/ HandleCreateWeb(r)
    \/ BodyCreateWeb(r)
    \/ BodyCreatePage(r)
    \/ BodyUpdatePage(r)
    \/ BodyCreateAttachment(r)

Fairness == \A r \in Req : WF_vars(Proceed(r))

SpecLive == Init /\ [][Next]_vars /\ Fairness

----------------------------------------------------------------------------
(* The router on its own: a path is built one segment at a time and        *)
(* classified for every method.                                            *)

\* The longest path tried, in segments.
MaxSegs == 6

\* The segments tried: the literals of the patterns (which are names as well
\* where a pattern has a parameter), a name, and the empty segment (two slashes
\* in a row, or a trailing slash).
RouterSegs == {S_empty, S_webs, S_pages, S_attachments, S_versions, NA}

\* The number of segments of a path: one per slash.
SegCount(path) == Cardinality({i \in DOMAIN path : path[i] = SLASH})

InitRouter ==
    /\ fs = EmptyRoot
    /\ hist = << >>
    /\ saved = << >>
    /\ lock = 0
    /\ reqs = [r \in Req |-> IdleReq]
    /\ lastOp = NoOp
    /\ nreq = 0
    /\ rpath = << >>

RouterAppend(seg) ==
    /\ SegCount(rpath) < MaxSegs
    /\ rpath' = rpath \o Seg(seg)
    /\ UNCHANGED <<fs, hist, saved, lock, reqs, lastOp, nreq>>

NextRouter == \E seg \in RouterSegs : RouterAppend(seg)

SpecRouter == InitRouter /\ [][NextRouter]_vars

----------------------------------------------------------------------------
(* Claims about the router.                                                *)

\* The segments of a path or of a pattern: what follows each slash.
Segments(path) == Skip(Split(path, SLASH), 1)
IsParam(seg) == seg # << >> /\ seg[1] = ":"

\* The patterns of the router: the string, its compiled form, its segments.
Pattern(str, pp) == [pattern |-> str, pp |-> pp, segs |-> Segments(str)]
Patterns ==
    {Pattern(WEBS_PATTERN, WEBS_PATH), Pattern(PAGES_PATTERN, PAGES_PATH),
     Pattern(PAGE_PATTERN, PAGE_PATH), Pattern(ATTACHMENTS_PATTERN, ATTACHMENTS_PATH),
     Pattern(ATTACHMENT_PATTERN, ATTACHMENT_PATH), Pattern(VERSIONS_PATTERN, VERSIONS_PATH),
     Pattern(VERSION_PATTERN, VERSION_PATH)}

\* /webs/a/pages/versions: the page named versions of web a.
UrlPage == Seg(S_webs) \o Seg(NA) \o Seg(S_pages) \o Seg(S_versions)

\* C7: ParamPath.test returns a match only if the path has as many segments
\* as the pattern and every literal segment is equal, and a match binds to
\* each declared parameter name, and to nothing else, the non-empty segment
\* of the path at that parameter's place.
C7_TestMatchesSegments ==
    LET xs == Segments(rpath) IN
    \A pat \in Patterns :
        LET res == ParamPath_test(pat.pp, rpath)
            ps == pat.segs
        IN  res.some =>
                /\ Len(xs) = Len(ps)
                /\ \A i \in DOMAIN ps :
                    IF IsParam(ps[i])
                    THEN /\ xs[i] # << >>
                         /\ Tail(ps[i]) \in DOMAIN res.map
                         /\ res.map[Tail(ps[i])] = xs[i]
                    ELSE xs[i] = ps[i]
                /\ DOMAIN res.map = {Tail(ps[i]) : i \in {j \in DOMAIN ps : IsParam(ps[j])}}

\* /webs/a/pages/versions matches /webs/:web_name/pages/:page_name with
\* web_name = a and page_name = versions, and /webs/a does not match it.
C7_Witness ==
    /\ rpath = UrlPage
    /\ ParamPath_test(PAGE_PATH, rpath).some
    /\ ParamPath_test(PAGE_PATH, rpath).map = (N_web_name :> NA) @@ (N_page_name :> S_versions)
    /\ ~ParamPath_test(PAGE_PATH, Seg(S_webs) \o Seg(NA)).some

\* The methods a request may carry.
AllMethods == {"GET", "POST", "PUT", "DELETE", "OPTIONS", "HEAD", "PATCH"}

\* The REST table read on the segments of a path: the shape of the path, then
\* the route of that shape for the method.
ShapeOf(xs) ==
    LET n == Len(xs)
        name(i) == xs[i] # << >>
        page == n >= 4 /\ xs[1] = S_webs /\ name(2) /\ xs[3] = S_pages /\ name(4)
    IN  IF n = 1 /\ xs[1] = S_webs THEN "webs"
        ELSE IF n = 3 /\ xs[1] = S_webs /\ name(2) /\ xs[3] = S_pages THEN "pages"
        ELSE IF n = 4 /\ page THEN "page"
        ELSE IF n = 5 /\ page /\ xs[5] = S_attachments THEN "attachments"
        ELSE IF n = 6 /\ page /\ xs[5] = S_attachments /\ name(6) THEN "attachment"
        ELSE IF n = 5 /\ page /\ xs[5] = S_versions THEN "versions"
        ELSE IF n = 6 /\ page /\ xs[5] = S_versions /\ name(6) THEN "version"
        ELSE "none"

RestTable ==
    (<<"GET", "webs">> :> "ListWebs") @@ (<<"POST", "webs">> :> "CreateWeb")
    @@ (<<"GET", "pages">> :> "ListPages") @@ (<<"POST", "pages">> :> "CreatePage")
    @@ (<<"GET", "page">> :> "ShowPage") @@ (<<"PUT", "page">> :> "UpdatePage")
    @@ (<<"GET", "attachments">> :> "ListAttachments")
    @@ (<<"POST", "attachments">> :> "CreateAttachment")
    @@ (<<"GET", "attachment">> :> "ServeAttachment")
    @@ (<<"GET", "versions">> :> "ListPageVersions")
    @@ (<<"GET", "version">> :> "ShowPageVersion")

ExpectedRoute(method, xs) ==
    LET shape == ShapeOf(xs) IN
    IF <<method, shape>> \notin DOMAIN RestTable THEN Invalid
    ELSE [route |-> RestTable[<<method, shape>>],
          web_name |-> IF shape = "webs" THEN << >> ELSE xs[2],
          page_name |-> IF shape \in {"webs", "pages"} THEN << >> ELSE xs[4],
          attachment_name |-> IF shape = "attachment" THEN xs[6] ELSE << >>,
          version_hash |-> IF shape = "version" THEN xs[6] ELSE << >>]

\* C8: for every method and path Route::from returns the route the REST table
\* gives for them, with the parameters of the path, and Invalid when the table
\* has no row for them (so for every method other than GET, POST and PUT).
C8_RouteFromIsRestTable ==
    LET xs == Segments(rpath) IN
    \A method \in AllMethods : Route_from(method, rpath) = ExpectedRoute(method, xs)

\* POST /webs/a/pages/versions/attachments is CreateAttachment of the page
\* versions of web a, and Invalid under DELETE.
C8_Witness ==
    /\ rpath = UrlPage \o Seg(S_attachments)
    /\ Route_from("POST", rpath).route = "CreateAttachment"
    /\ Route_from("POST", rpath).web_name = NA
    /\ Route_from("POST", rpath).page_name = S_versions
    /\ Route_from("DELETE", rpath) = Invalid


----------------------------------------------------------------------------
(* The content type of an attachment (SpecMime): Attachment::mime_type     *)
(* applied to the attachment of every file name of up to MaxName           *)
(* characters.                                                             *)

LowerCase == <<"a","b","c","d","e","f","g","h","i","j","k","l","m",
               "n","o","p","q","r","s","t","u","v","w","x","y","z">>
UpperCase == <<"A","B","C","D","E","F","G","H","I","J","K","L","M",
               "N","O","P","Q","R","S","T","U","V","W","X","Y","Z">>

\* The case folding of the regex flag (?i), on ASCII letters.
Lower(c) ==
    IF \E i \in DOMAIN UpperCase : UpperCase[i] = c
    THEN LowerCase[CHOOSE i \in DOMAIN UpperCase : UpperCase[i] = c]
    ELSE c

\* ^(?i)word$ for a word of lower case letters
IsMatchIgnoreCase(word, s) ==
    Len(s) = Len(word) /\ \A i \in DOMAIN s : Lower(s[i]) = word[i]

\* Path::extension: the part of the file name after its last dot; None when
\* there is no file name, no dot, or only a leading dot.
PathExtension(path) ==
    LET file_name == PathFileName(path) IN
    IF ~file_name.some THEN [some |-> FALSE, v |-> << >>]
    ELSE LET n == file_name.v
             dots == {i \in DOMAIN n : n[i] = "."}
         IN  IF dots = {} \/ Max(dots) = 1 THEN [some |-> FALSE, v |-> << >>]
             ELSE [some |-> TRUE, v |-> SubSeq(n, Max(dots) + 1, Len(n))]

OCTET_STREAM == "application/octet-stream"
IMAGE_PNG == "image/png"
IMAGE_JPEG == "image/jpeg"
W_png == <<"p", "n", "g">>
W_jpg == <<"j", "p", "g">>
W_jpeg == <<"j", "p", "e", "g">>

\* page.rs:84 Attachment::mime_type, the one lib.rs:308 calls
Attachment_mime_type(att) ==
    LET ext == PathExtension(att.path) IN
    IF ~ext.some THEN OCTET_STREAM
    ELSE IF ~IsUtf8(ext.v) THEN OCTET_STREAM
    ELSE IF IsMatchIgnoreCase(W_png, ext.v) THEN IMAGE_PNG
    ELSE OCTET_STREAM

\* attachment.rs:81 Attachment::mime_type, of a module lib.rs does not declare
AttachmentRs_mime_type(att) ==
    LET ext == PathExtension(att.path) IN
    IF ~ext.some THEN OCTET_STREAM
    ELSE IF ~IsUtf8(ext.v) THEN OCTET_STREAM
    ELSE IF IsMatchIgnoreCase(W_png, ext.v) THEN IMAGE_PNG
    ELSE IF IsMatchIgnoreCase(W_jpg, ext.v) \/ IsMatchIgnoreCase(W_jpeg, ext.v)
         THEN IMAGE_JPEG
    ELSE OCTET_STREAM

\* The longest file name.
MaxName == 6

NameChars == {"p", "n", "g", "j", "e", "G", ".", NonUtf8}

\* page.rs:294 the attachment of page a that the name rpath gets.
AttachmentOf(name) ==
    [path |-> PathPush(PathPush(PageA, ATTACHMENTS_DIRECTORY), name)]

MimeAppend(c) ==
    /\ Len(rpath) < MaxName
    /\ rpath' = Append(rpath, c)
    /\ UNCHANGED <<fs, hist, saved, lock, reqs, lastOp, nreq>>

NextMime == \E c \in NameChars : MimeAppend(c)

SpecMime == InitRouter /\ [][NextMime]_vars

----------------------------------------------------------------------------
(* The store used directly (SpecStore): the public operations of page.rs   *)
(* and web.rs applied to pages of the given paths, with and without        *)
(* failures of the filesystem.                                             *)

StorePaths == {PageA, <<RootName, NA, NB>>, <<RootName, NB, NA>>}
StorePages == {MkPage(p, d) : p \in StorePaths, d \in Details}

StoreQuiet == UNCHANGED <<lock, reqs, hist, saved, nreq, rpath>>

StoreCreateWeb ==
    /\ LET res == Webs_create_web(fs, NA) IN
        /\ fs' = res.fs
        /\ lastOp' = Op(0, "Webs.create_web", PathPush(WebsPath, NA), res)
    /\ StoreQuiet

StoreCreate ==
    /\ \E page \in StorePages :
        LET res == Page_create(fs, page) IN
            /\ fs' = res.fs
            /\ lastOp' = Op(0, "Page.create", page.path, res)
    /\ StoreQuiet

StoreUpdate ==
    /\ \E page \in StorePages :
        LET res == Page_update(fs, page) IN
            /\ fs' = res.fs
            /\ lastOp' = Op(0, "Page.update", page.path, res)
    /\ StoreQuiet

\* The webs the page operations of web.rs are applied to - the web a and a
\* Web bound to the root - and the pages {name, content} given to them.
StoreWebs == {MkWeb(NA, <<RootName, NA>>), MkWeb(RootName, WebsPath)}
StoreWebPages == {[name |-> n, content |-> c] : n \in {NA, NB}, c \in Contents}

StoreWebCreatePage ==
    /\ \E web \in StoreWebs : \E page \in StoreWebPages :
        LET res == Web_create_page(fs, web, page) IN
            /\ fs' = res.fs
            /\ lastOp' = Op(0, "Web.create_page", PathPush(web.path, page.name), res)
    /\ StoreQuiet

StoreWebUpdatePage ==
    /\ \E web \in StoreWebs : \E page \in StoreWebPages :
        LET res == Web_update_page(fs, web, page) IN
            /\ fs' = res.fs
            /\ lastOp' = Op(0, "Web.update_page", PathPush(web.path, page.name), res)
    /\ StoreQuiet

StoreUpdateFails ==
    /\ \E page \in StorePages : \E io \in IoFaults :
        LET res == Page_update_failing(fs, page, io) IN
            /\ fs' = res.fs
            /\ lastOp' = Op(0, "Page.update", page.path, res)
    /\ StoreQuiet

StoreCreateFails ==
    /\ \E page \in StorePages : \E io \in CreateFaults :
        LET res == Page_create_failing(fs, page, io) IN
            /\ fs' = res.fs
            /\ lastOp' = Op(0, "Page.create", page.path, res)
    /\ StoreQuiet

NextStore ==
    \/ StoreCreateWeb \/ StoreCreate \/ StoreUpdate \/ StoreUpdateFails \/ StoreCreateFails
    \/ StoreWebCreatePage \/ StoreWebUpdatePage

SpecStore == Init /\ [][NextStore]_vars

----------------------------------------------------------------------------
(* Uploads at the store (SpecAttach): what lib.rs:262-267 does with a       *)
(* parsed AttachmentData - validate the file name, then save_attachment on  *)
(* a page that opens - for file names with and without separators.          *)

F_up == <<".", ".", SLASH>> \o PAGE_FILENAME
F_abs == Seg(RootName) \o Seg(NA) \o Seg(F_fp)
F_sub == NA \o Seg(F_fp)
F_lf == <<LF, ".", "p">>
F_uni == <<"é", ".", "p">>
\* a.<U+0897>: the extension is a mark that Unicode 16.0 added
F_mark == <<"a", ".", Chr(2199)>>

FileNames == {F_fp, F_noext, F_up, F_abs, F_sub, F_lf, F_uni, F_mark}
Uploads ==
    {[file_name |-> n, encoded_data |-> base64_encode(<<1>>)] : n \in FileNames}
    \cup {[file_name |-> F_fp, encoded_data |-> E_AR]}
    \cup {[file_name |-> F_up, encoded_data |-> base64_encode(PayloadJson)]}

\* lib.rs:263-267 with AttachmentData of page.rs
StoreSaveAttachmentOn(path, att_data) ==
    /\ Page_open(fs, path).ok
    /\ IF ~is_file_name_valid(att_data) THEN
            /\ lastOp' = Rejected(0, "BadFileName")
            /\ UNCHANGED fs
       ELSE LET res == Page_save_attachment(fs, Page_open(fs, path).page, att_data) IN
            /\ fs' = res.fs
            /\ lastOp' = Op(0, "Page.save_attachment", path, res)
    /\ StoreQuiet

StoreSaveAttachment ==
    \E path \in StorePaths : \E att_data \in Uploads : StoreSaveAttachmentOn(path, att_data)

NextAttach == StoreCreateWeb \/ StoreCreate \/ StoreSaveAttachment

SpecAttach == Init /\ [][NextAttach]_vars

----------------------------------------------------------------------------
(* Page::open used directly (SpecOpen): pages created in web a and inside   *)
(* the directory of page a, and every directory of the store opened by the  *)
(* paths that name it.                                                      *)

OpenPaths == {PageA, Append(PageA, NB)}

\* Page::create on a page of any detail at one of these paths.
StoreCreateAt ==
    /\ \E path \in OpenPaths : \E d \in Details :
        LET res == Page_create(fs, MkPage(path, d)) IN
            /\ fs' = res.fs
            /\ lastOp' = Op(0, "Page.create", path, res)
    /\ StoreQuiet

Directories(f) == {p \in DOMAIN f : p # << >> /\ f[p].kind = "dir"}

\* Paths that name the directory p: p itself, p/ and p/. , which end in the
\* name of p, and c/.. and c/../ for every directory c in p, which end in no
\* name.
Spellings(f, p) ==
    {p, Append(p, S_empty), Append(p, S_dot)}
    \cup {Append(c, S_dotdot) : c \in {e \in Directories(f) : Parent(e) = p}}
    \cup {c \o <<S_dotdot, S_empty>> : c \in {e \in Directories(f) : Parent(e) = p}}

\* Page::open on a directory of the store, by one of the paths that name it.
StoreOpen ==
    /\ \E p \in Directories(fs) : \E path \in Spellings(fs, p) :
        lastOp' = Op(0, "Page.open", path, Page_open(fs, path))
    /\ UNCHANGED fs
    /\ StoreQuiet

NextOpen == StoreCreateWeb \/ StoreCreateAt \/ StoreOpen

SpecOpen == Init /\ [][NextOpen]_vars

----------------------------------------------------------------------------
(* The store and the handlers (Spec).                                      *)

\* The version files of the page directory p: the files of p/versions.
VersionFiles(f, p) ==
    {q \in DOMAIN f : /\ Len(q) = Len(p) + 2
                      /\ SubSeq(q, 1, Len(p) + 1) = Append(p, S_versions)
                      /\ f[q].kind = "file"}

\* C1: after any sequence of successful writes to a page, the page directory
\* holds exactly one version file per distinct detail written to it.
C1_OneVersionPerDetail ==
    \A p \in DOMAIN hist :
        Cardinality(VersionFiles(fs, p)) = Cardinality(hist[p].written)

\* C2: every store operation of a handler runs while that request holds the
\* mutex of the service.
C2_StoreOpsUnderLock == lastOp.op # "none" => lastOp.locked

\* C3: Page.open on a page directory returns the detail of the last
\* successful create or update of that page.
C3_OpenReturnsLastWritten ==
    \A p \in DOMAIN hist :
        LET o == Page_open(fs, p) IN o.ok /\ o.page.detail = hist[p].last

\* C4: a page is created at most once: a Page.create on a path that exists
\* fails with OverwriteError, is answered 400 and leaves the store as it was;
\* a Page.create that succeeds found no such path and is the only one.
C4_CreatedOnce ==
    [][\A r \in Req : \A body \in Bodies :
        (BodyCreatePageOn(r, body) /\ lastOp'.op = "Page.create") =>
            LET p == lastOp'.path IN
            /\ PathExists(fs, p) =>
                /\ ~lastOp'.ok /\ lastOp'.err = "OverwriteError"
                /\ reqs'[r].status = 400
                /\ fs' = fs
            /\ lastOp'.ok =>
                /\ ~PathExists(fs, p)
                /\ PathIsDir(fs', p)
                /\ HistOf(hist', p).creates = 1]_vars

\* A second CreatePage of one name was refused after the first one succeeded.
C4_Witness ==
    /\ lastOp.op = "Page.create" /\ lastOp.err = "OverwriteError"
    /\ HistOf(hist, lastOp.path).creates = 1
    /\ reqs[lastOp.req].status = 400

\* The detail stored in directory p, when its file reads and parses.
StoredDetail(f, p) ==
    LET detail_file == FsReadFile(f, Append(p, PAGE_FILENAME)) IN
    IF ~detail_file.ok THEN [ok |-> FALSE, v |-> NoDetail]
    ELSE Deserialize(detail_file.data, PageDetailFields)

\* C5 as claimed, on the directories whose name is UTF-8: for every such
\* directory whose stored detail has a name other than the directory's last
\* component Page.open fails with NameMismatch, by whatever path the directory
\* is named, and a Page that Page.open returns has the name of its directory.
C5_OpenChecksAnyName ==
    \A p \in Directories(fs) : \A path \in Spellings(fs, p) :
        LET o == Page_open(fs, path)
            d == StoredDetail(fs, p)
        IN  /\ (IsUtf8(p[Len(p)]) /\ d.ok /\ d.v.name # p[Len(p)]) =>
                    (~o.ok /\ o.err = "NameMismatch")
            /\ o.ok => o.page.detail.name = p[Len(p)]

\* C5, amended: Page.open by a path that names an existing directory fails
\* with InvalidPath when the path ends in no name, and with Utf8Error when the
\* name it ends in is no UTF-8, whatever is stored; it fails with NameMismatch
\* when the path ends in a UTF-8 name and the detail stored in the directory
\* has another name; and a Page that it returns has the name its path ends in.
C5_OpenChecksName ==
    \A p \in Directories(fs) : \A path \in Spellings(fs, p) :
        LET o == Page_open(fs, path)
            d == StoredDetail(fs, p)
            file_name == PathFileName(path)
        IN  /\ ~file_name.some => (~o.ok /\ o.err = "InvalidPath")
            /\ (file_name.some /\ ~IsUtf8(file_name.v)) => (~o.ok /\ o.err = "Utf8Error")
            /\ (file_name.some /\ IsUtf8(file_name.v) /\ d.ok /\ d.v.name # file_name.v) =>
                    (~o.ok /\ o.err = "NameMismatch")
            /\ o.ok => (file_name.some /\ o.page.detail.name = file_name.v
                        /\ file_name.v = p[Len(p)])

\* Page.open has just failed with NameMismatch on the directory of page a,
\* which stores another name and is also named by a path that ends in "..",
\* next to a directory that opens.
C5_Witness ==
    /\ lastOp.op = "Page.open" /\ lastOp.err = "NameMismatch"
    /\ PathFileName(lastOp.path).v = NA
    /\ StoredDetail(fs, PageA).ok /\ StoredDetail(fs, PageA).v.name # NA
    /\ \E path \in Spellings(fs, PageA) :
        ~PathFileName(path).some /\ Page_open(fs, path).err = "InvalidPath"
    /\ \E p \in Directories(fs) : Page_open(fs, p).ok

\* C6: an UpdatePage request whose body names another page than its path is
\* answered 400 and writes nothing.
C6_UpdateNameMismatch ==
    [][\A r \in Req : \A body \in Bodies :
        (/\ BodyUpdatePageOn(r, body)
         /\ PageDetail_parse(body).ok
         /\ PageDetail_parse(body).v.name # reqs[r].route.page_name) =>
            /\ reqs'[r].pc = "done" /\ reqs'[r].status = 400
            /\ fs' = fs
            /\ lastOp'.op = "none"]_vars

\* An update of page a was refused for its body's name.
C6_Witness ==
    /\ lastOp.op = "none" /\ lastOp.err = "PageNameDiffers"
    /\ reqs[lastOp.req].route.route = "UpdatePage"
    /\ reqs[lastOp.req].status = 400

\* C9: create_web(name) on a root/name that exists, as a file or as a
\* directory, fails with OverwriteError and changes nothing; on a free name
\* directly under the root it succeeds, and after a success get_web(name)
\* returns that web.
C9_CreateWebTwice ==
    [][\A r \in Req :
        (HandleCreateWeb(r) /\ lastOp'.op = "Webs.create_web") =>
            LET name == reqs[r].stub
                p == PathPush(WebsPath, name)
            IN
            /\ PathExists(fs, p) =>
                /\ ~lastOp'.ok /\ lastOp'.err = "OverwriteError"
                /\ fs' = fs
                /\ reqs'[r].status = 400
            /\ (~PathExists(fs, p) /\ Len(p) = 2) => lastOp'.ok
            /\ lastOp'.ok =>
                /\ ~PathExists(fs, p)
                /\ Webs_get_web(fs', name).some
                /\ Webs_get_web(fs', name).web = MkWeb(name, p)]_vars

\* In a root that started empty a second create_web of one name was refused.
C9_Witness ==
    /\ ~IsFileAt(fs, <<RootName, NB>>)
    /\ lastOp.op = "Webs.create_web" /\ lastOp.err = "OverwriteError"
    /\ PathIsDir(fs, lastOp.path)

\* C10: after a successful save_attachment of file name F with a payload that
\* encodes the bytes B, get_attachment(F).data() returns exactly B until the
\* next save to F.
C10_AttachmentRoundTrip ==
    \A k \in DOMAIN saved :
        LET att == Page_get_attachment(fs, MkPage(k[1], NoDetail), k[2]) IN
        /\ att.ok
        /\ LET data == Attachment_data(fs, att.att) IN
            /\ data.ok
            /\ base64_encode(data.data.bytes) = saved[k]
            /\ data.data.bytes \in Payloads

\* An attachment of two bytes, one of them 255, was saved and reads back.
C10_Witness ==
    \E k \in DOMAIN saved :
        /\ saved[k] = base64_encode(<<2, 255>>)
        /\ Attachment_data(fs, [path |-> k[1] \o <<ATTACHMENTS_DIRECTORY, k[2]>>]).ok

\* A file name of the form <word>.<word>, each word a non-empty run of
\* letters, digits and underscores.
HasWordDotWord(name) ==
    \E i \in 1..Len(name) :
        /\ name[i] = "."
        /\ i > 1 /\ i < Len(name)
        /\ \A j \in 1..Len(name) : j # i => IsWordChar(name[j])

\* C11: a CreateAttachment request whose file name fails validation is
\* answered 400 before any write: the store is left as it was (no attachments
\* directory, no file created or changed).
C11_BadFileNameRejected ==
    [][\A r \in Req : \A body \in Bodies :
        (/\ BodyCreateAttachmentOn(r, body)
         /\ AttachmentData_parse(body).ok
         /\ ~HasWordDotWord(AttachmentData_parse(body).v.file_name)) =>
            /\ reqs'[r].pc = "done" /\ reqs'[r].status = 400
            /\ fs' = fs
            /\ lastOp'.op = "none"]_vars

\* An upload named without a dot was refused on a page that has no
\* attachments directory.
C11_Witness ==
    /\ lastOp.op = "none" /\ lastOp.err = "BadFileName"
    /\ reqs[lastOp.req].route.route = "CreateAttachment"
    /\ reqs[lastOp.req].status = 400
    /\ ~PathExists(fs, PathPush(PagePathOf(reqs[lastOp.req].route), ATTACHMENTS_DIRECTORY))

\* The names of the entries of directory dir that are of the given kind.
EntriesOfKind(f, dir, kind) ==
    {q[Len(q)] : q \in {e \in DOMAIN f : /\ Len(e) = Len(dir) + 1
                                          /\ Parent(e) = dir
                                          /\ f[e].kind = kind}}

\* C12: listing the attachments of a page answers with the empty list when
\* the page has no attachments directory, and otherwise with one stub per
\* regular file of that directory; it is never an error.
C12_ListAttachmentsOfNewPage ==
    lastOp.op = "Page.list_attachments" =>
        LET dir == Append(lastOp.path, ATTACHMENTS_DIRECTORY)
            q == reqs[lastOp.req]
        IN  /\ lastOp.ok
            /\ q.status = 200
            /\ q.body = List(IF dir \in DOMAIN fs
                             THEN EntriesOfKind(fs, dir, "file") ELSE {})

\* The names under which pages have been created below the directory dir.
CreatedIn(dir) ==
    {hist[p].last.name : p \in {x \in DOMAIN hist : /\ hist[x].creates > 0
                                                     /\ Len(x) > Len(dir)
                                                     /\ SubSeq(x, 1, Len(dir)) = dir}}

\* C13: list_pages of a web answers with the immediate subdirectories of the
\* web's directory (those a stub can name), and after the pages created in
\* the web it holds a stub for every one of them and none for anything else.
C13_ListPagesAreSubdirectories ==
    lastOp.op = "Web.list_pages" =>
        LET q == reqs[lastOp.req] IN
            /\ lastOp.ok
            /\ q.status = 200
            /\ q.body = List({n \in EntriesOfKind(fs, lastOp.path, "dir") : IsUtf8(n)})
            /\ CreatedIn(lastOp.path) \subseteq q.body.list

\* list_pages answers with the immediate subdirectories of the web's
\* directory that a stub can name.
ListPages_Subdirectories ==
    lastOp.op = "Web.list_pages" =>
        LET q == reqs[lastOp.req] IN
            /\ lastOp.ok
            /\ q.status = 200
            /\ q.body = List({n \in EntriesOfKind(fs, lastOp.path, "dir") : IsUtf8(n)})

\* C14: Page.update on a page whose directory does not exist fails with
\* NotFound and creates nothing: update never brings a page into existence.
C14_UpdateOfMissingPage ==
    [][(lastOp'.op = "Page.update" /\ ~PathExists(fs, lastOp'.path)) =>
            /\ ~lastOp'.ok /\ lastOp'.err = "NotFound"
            /\ fs' = fs]_vars

\* An update of a page that its existing web does not hold was refused.
C14_Witness ==
    /\ lastOp.op = "Page.update" /\ lastOp.err = "NotFound"
    /\ ~PathExists(fs, lastOp.path)
    /\ PathIsDir(fs, Parent(lastOp.path))

\* C15: whenever Page.update returns an error the current-detail file holds in
\* full the content it had before the call, so Page.open answers as before.
C15_FailedUpdateKeepsDetail ==
    [][(lastOp'.op = "Page.update" /\ ~lastOp'.ok) =>
            LET detail_path == Append(lastOp'.path, PAGE_FILENAME) IN
            /\ FsReadFile(fs', detail_path) = FsReadFile(fs, detail_path)
            /\ Page_open(fs', lastOp'.path) = Page_open(fs, lastOp'.path)]_vars

\* The status the outcome o of a request calls for: 404 for an Invalid
\* route, an unresolved web or page, or a NotFound failure; 400 for a
\* malformed body, a name mismatch, an invalid file name or an OverwriteError
\* on create; 500 for every other failure; success otherwise.
StatusByOutcome(o) ==
    IF o.ok THEN 200
    ELSE IF o.err \in {"InvalidRoute", "None", "NotFound"} THEN 404
    ELSE IF o.err \in {"BadBody", "Base64Error", "PageNameDiffers", "BadFileName"} THEN 400
    ELSE IF o.err = "OverwriteError" /\ o.op \in {"Page.create", "Webs.create_web"} THEN 400
    ELSE 500

\* C16: the status of every response is the one its outcome calls for.
C16_StatusByOutcome ==
    [][\A r \in Req :
        (reqs'[r].pc = "done" /\ (reqs[r].pc # "done" \/ nreq' # nreq)) =>
            reqs'[r].status = StatusByOutcome(lastOp')]_vars

\* The content type the table gives an extension: png, jpg and jpeg without
\* regard to case, the generic type for anything else.
MimeTable(ext) ==
    LET low == [i \in DOMAIN ext |-> Lower(ext[i])] IN
    IF low = W_png THEN IMAGE_PNG
    ELSE IF low \in {W_jpg, W_jpeg} THEN IMAGE_JPEG
    ELSE OCTET_STREAM

\* The content type claimed for an attachment path.
MimeByExtension(path) ==
    LET ext == PathExtension(path) IN
    IF ext.some THEN MimeTable(ext.v) ELSE OCTET_STREAM

\* C17: the content type of an attachment is that of the table for the
\* extension of its file name, and the generic type without an extension.
C17_MimeByExtension ==
    Attachment_mime_type(AttachmentOf(rpath)) = MimeByExtension(AttachmentOf(rpath).path)

\* Attachment::mime_type of attachment.rs gives the content type of the table.
AttachmentRs_MimeByExtension ==
    AttachmentRs_mime_type(AttachmentOf(rpath)) = MimeByExtension(AttachmentOf(rpath).path)

\* The details ever written to page directory p: those of this run and, in
\* the root left by an earlier run, the detail page a was left with.
DetailsWritten(p) ==
    HistOf(hist, p).written
    \cup (IF p = PageA /\ IsFileAt(fs, <<RootName, NB>>) THEN {D0} ELSE {})

\* C18: in every interleaving of UpdatePage and ShowPage requests, a ShowPage
\* that finds the page answers with one complete detail written to that page
\* by some create or update, never with an empty, cut or mixed one.
C18_NoTornPage ==
    \A r \in Req :
        (reqs[r].pc = "done" /\ reqs[r].route.route = "ShowPage" /\ reqs[r].status = 200) =>
            \E d \in DetailsWritten(PagePathOf(reqs[r].route)) :
                reqs[r].body = DetailJson(d)

\* A ShowPage of page a answered with the detail that an UpdatePage of this
\* run wrote over the one the page had.
C18_Witness ==
    \E r, q \in Req :
        /\ reqs[r].pc = "done" /\ reqs[r].route.route = "ShowPage" /\ reqs[r].status = 200
        /\ reqs[r].body = DetailJson(Detail(NA, T_t, C_y))
        /\ reqs[q].pc = "done" /\ reqs[q].route.route = "UpdatePage" /\ reqs[q].status = 200
        /\ reqs[q].route.page_name = reqs[r].route.page_name
        /\ IsFileAt(fs, <<RootName, NB>>)

\* C19: save_attachment decodes the payload before it touches the
\* filesystem: with a payload that is no base64 it fails with Base64Error and
\* the store is unchanged - no attachments directory is created, no attachment
\* of that file name is overwritten or cut.
C19_DecodeBeforeWrite ==
    [][\A r \in Req : \A body \in Bodies :
        (/\ BodyCreateAttachmentOn(r, body)
         /\ lastOp'.op = "Page.save_attachment"
         /\ ~base64_decode(AttachmentData_parse(body).v.encoded_data).ok) =>
            /\ ~lastOp'.ok /\ lastOp'.err = "Base64Error"
            /\ reqs'[r].status = 400
            /\ fs' = fs]_vars

\* An upload that is no base64 was refused for a file name under which the
\* page holds an attachment saved before.
C19_Witness ==
    /\ lastOp.op = "Page.save_attachment" /\ lastOp.err = "Base64Error"
    /\ <<lastOp.path, F_fp>> \in DOMAIN saved
    /\ PathIsFile(fs, lastOp.path \o <<ATTACHMENTS_DIRECTORY, F_fp>>)

\* A request body that is a web stub with the single member name.
IsNameOnly(body) ==
    body.t = "json" /\ Len(body.json) = 1 /\ body.json[1][1] = "name"

\* C20: a CreateWeb request whose body carries only a name is accepted: its
\* closure goes on to create_web with that name.
C20_CreateWebByNameOnly ==
    [][\A r \in Req : \A body \in Bodies :
        (BodyCreateWebOn(r, body) /\ IsNameOnly(body)) =>
            /\ reqs'[r].pc = "locked"
            /\ reqs'[r].stub = body.json[1][2]]_vars

\* A request is admitted from the start of call() to its response.
Admitted(r) == reqs[r].pc \in {"locked", "body"}

\* C21: the mutex is held only by a request that is inside call() or inside
\* its closure, never by one that waits for its body; and every admitted
\* request is answered and the mutex is released again, whatever bodies the
\* other requests still wait for.
C21_NoRequestBlocks ==
    /\ [](\A r \in Req : lock = r => reqs[r].pc = "locked")
    /\ \A r \in Req : Admitted(r) ~> (reqs[r].pc = "done")
    /\ (lock # 0) ~> (lock = 0)

\* A request ran its store operation under the mutex and was answered while
\* the request admitted before it still waits for its body.
C21_Witness ==
    \E r, q \in Req :
        /\ r # q
        /\ reqs[r].pc = "body"
        /\ reqs[q].pc = "done"
        /\ lastOp.req = q /\ lastOp.op # "none" /\ lastOp.locked
        /\ lock = 0

\* C22: whatever CreatePage and UpdatePage requests the service has handled,
\* every directory that holds a current-detail file (and that the service can
\* have written: its name is UTF-8) holds one whose name is the directory's
\* last path component, and Page.open does not fail with NameMismatch on a
\* page the service wrote.
C22_NameInvariant ==
    /\ \A p \in Directories(fs) :
        (IsUtf8(p[Len(p)]) /\ StoredDetail(fs, p).ok) =>
            StoredDetail(fs, p).v.name = p[Len(p)]
    /\ \A p \in DOMAIN hist : Page_open(fs, p).err # "NameMismatch"

\* The patterns that match a path.
Matching(path) == {pat \in Patterns : ParamPath_test(pat.pp, path).some}

\* The rules of each method, in any order: a pattern and the route it gives.
Rule(pp, kind) == [pp |-> pp, kind |-> kind]
RulesOf(method) ==
    IF method = "GET" THEN
        {Rule(WEBS_PATH, "ListWebs"), Rule(PAGES_PATH, "ListPages"),
         Rule(PAGE_PATH, "ShowPage"), Rule(ATTACHMENTS_PATH, "ListAttachments"),
         Rule(ATTACHMENT_PATH, "ServeAttachment"), Rule(VERSIONS_PATH, "ListPageVersions"),
         Rule(VERSION_PATH, "ShowPageVersion")}
    ELSE IF method = "POST" THEN
        {Rule(WEBS_PATH, "CreateWeb"), Rule(PAGES_PATH, "CreatePage"),
         Rule(ATTACHMENTS_PATH, "CreateAttachment")}
    ELSE IF method = "PUT" THEN {Rule(PAGE_PATH, "UpdatePage")}
    ELSE {}

\* C23: at most one of the router's patterns matches a path, so the route of
\* a method and path is the route of whichever rule of that method matches,
\* in whatever order the rules are tried.
C23_PatternsExclusive ==
    /\ Cardinality(Matching(rpath)) <= 1
    /\ \A method \in AllMethods : \A rule \in RulesOf(method) :
        LET res == ParamPath_test(rule.pp, rpath) IN
        res.some => Route_from(method, rpath) = MkRoute(rule.kind, res.map)

\* /webs/pages/pages/attachments/attachments, every segment of which is a
\* literal of some pattern, matches the attachments pattern and no other.
C23_Witness ==
    /\ rpath = Seg(S_webs) \o Seg(S_pages) \o Seg(S_pages) \o Seg(S_attachments)
                \o Seg(S_attachments)
    /\ Matching(rpath) = {Pattern(ATTACHMENTS_PATTERN, ATTACHMENTS_PATH)}
    /\ Route_from("GET", rpath).page_name = S_attachments

\* What a save_attachment on the page at path may change from f to g: the
\* attachments directory of the page may appear, and regular files directly in
\* it may appear or change; nothing else, and nothing goes away.
Confined(f, g, path) ==
    LET att_dir == Append(path, ATTACHMENTS_DIRECTORY) IN
    /\ DOMAIN f \subseteq DOMAIN g
    /\ \A q \in DOMAIN g :
        (q \notin DOMAIN f \/ g[q] # f[q]) =>
            \/ q = att_dir /\ g[q] = DirNode /\ q \notin DOMAIN f
            \/ Parent(q) = att_dir /\ g[q].kind = "file"

\* A file name that is one name: no separator, and neither "." nor "..".
IsPlainName(n) == n # << >> /\ n \notin {S_dot, S_dotdot} /\ \A i \in DOMAIN n : n[i] # SLASH

\* C24: whatever file name is_file_name_valid accepts is one name, and with
\* it save_attachment writes the file of that name directly in the attachments
\* directory of its page and creates or overwrites nothing else: no page.json,
\* no file of another page or web; an upload that is refused writes nothing.
\* (The first two conjuncts of the premise follow from the third and spare
\* its evaluation on the steps of other operations.)
C24_AttachmentsConfined ==
    [][\A path \in StorePaths : \A att_data \in Uploads :
        (/\ lastOp'.op \in {"none", "Page.save_attachment"}
         /\ lastOp'.op = "Page.save_attachment" => lastOp'.path = path
         /\ StoreSaveAttachmentOn(path, att_data)) =>
            /\ Confined(fs, fs', path)
            /\ is_file_name_valid(att_data) => IsPlainName(att_data.file_name)
            /\ (lastOp'.op = "Page.save_attachment" /\ lastOp'.ok) =>
                    IsFileAt(fs', path \o <<ATTACHMENTS_DIRECTORY, att_data.file_name>>)
            /\ lastOp'.op # "Page.save_attachment" => fs' = fs]_vars

\* Uploads of file names with a letter and with a mark that are not ASCII
\* were written into the attachments directory of page a, and the page still
\* opens.
C24_Witness ==
    /\ lastOp.op = "Page.save_attachment" /\ lastOp.ok /\ lastOp.path = PageA
    /\ IsFileAt(fs, PageA \o <<ATTACHMENTS_DIRECTORY, F_uni>>)
    /\ IsFileAt(fs, PageA \o <<ATTACHMENTS_DIRECTORY, F_mark>>)
    /\ Page_open(fs, PageA).ok

\* C25: a Page.create that is called while the page directory is absent and
\* returns an error leaves no page directory: the path is still free, a later
\* create of that page does not fail with OverwriteError, and no directory is
\* left without a current-detail file.
C25_FailedCreateLeavesNothing ==
    [][(lastOp'.op = "Page.create" /\ ~lastOp'.ok /\ ~PathExists(fs, lastOp'.path)) =>
            /\ ~PathExists(fs', lastOp'.path)
            /\ \A d \in Details :
                Page_create(fs', MkPage(lastOp'.path, d)).err # "OverwriteError"
            /\ PathIsDir(fs', lastOp'.path) =>
                    PathIsFile(fs', Append(lastOp'.path, PAGE_FILENAME))]_vars

====
